---- MODULE Spec2Model ----
(***************************************************************************)
(* Routing and dispatch engine of zeke: the provider registry              *)
(* (ProviderManager), its capability selector and dispatch loop, and the   *)
(* dual-mode ProviderRouter.                                               *)
(*                                                                         *)
(* Numbers.  error_rate and the selector's score are Rust f32 values.  An  *)
(* f32 is modelled exactly as a record [c, m, x]: c is "fin", "inf" or     *)
(* "nan"; a finite value is m * 2^x with m = 0 or 2^23 <= m < 2^24.  Every *)
(* operation rounds to nearest, ties to even, as IEEE-754 binary32 does.   *)
(* Durations are whole microseconds.                                       *)
(***************************************************************************)
EXTENDS Integers, Sequences, FiniteSets, TLC

---------------------------------------------------------------------------
(* Bounds of the model *)

\* number of concurrently running callers of the registry
MaxTasks == 2
\* number of adapter calls (attempts) in one behaviour
MaxAttempts == 2
\* number of register_provider calls made by callers in one behaviour
MaxRegistrations == 2
\* number of update_health calls on one row in one behaviour of SpecEma,
\* whatever their outcomes
MaxUpdates == 8
\* length of an unbroken run of failures on one row in SpecEma
MaxStreak == 160
\* number of successful switch_mode calls in one behaviour of SpecRouter
MaxSwitches == 2

---------------------------------------------------------------------------
(* IEEE-754 binary32 arithmetic on non-negative values *)

Pow2(n) == 2 ^ n

RECURSIVE BitLen(_)
BitLen(v) == IF v = 0 THEN 0 ELSE 1 + BitLen(v \div 2)

F32Zero == [c |-> "fin", m |-> 0, x |-> 0]
F32Inf == [c |-> "inf", m |-> 0, x |-> 0]
F32NaN == [c |-> "nan", m |-> 0, x |-> 0]

\* the f32 nearest to M * 2^x; bit 0 of M is a sticky bit whenever M has
\* more than 25 significant bits
F32Round(M, x) ==
    IF M = 0 THEN F32Zero
    ELSE LET p == BitLen(M) IN
         IF p <= 24
         THEN [c |-> "fin", m |-> M * Pow2(24 - p), x |-> x - (24 - p)]
         ELSE LET s == p - 24
                  q == M \div Pow2(s)
                  r == M % Pow2(s)
                  half == Pow2(s - 1)
                  up == r > half \/ (r = half /\ q % 2 = 1)
                  q2 == IF up THEN q + 1 ELSE q
              IN  IF q2 = Pow2(24)
                  THEN [c |-> "fin", m |-> Pow2(23), x |-> x + s + 1]
                  ELSE [c |-> "fin", m |-> q2, x |-> x + s]

\* v shifted right by d bits, the bits shifted out OR-ed into bit 0
ShiftRightSticky(v, d) ==
    IF d >= 30 THEN (IF v > 0 THEN 1 ELSE 0)
    ELSE LET q == v \div Pow2(d)
             r == v % Pow2(d)
         IN  IF r > 0 /\ q % 2 = 0 THEN q + 1 ELSE q

\* an integer 0 <= n < 2^24 as f32 (`as f32`)
F32FromInt(n) == F32Round(n, 0)

F32One == F32FromInt(1)

\* a * b
F32Mul(a, b) ==
    IF a.c = "nan" \/ b.c = "nan" THEN F32NaN
    ELSE IF a.c = "inf" \/ b.c = "inf"
    THEN (IF (a.c = "fin" /\ a.m = 0) \/ (b.c = "fin" /\ b.m = 0)
          THEN F32NaN ELSE F32Inf)
    ELSE IF a.m = 0 \/ b.m = 0 THEN F32Zero
    ELSE LET ah == a.m \div 4096
             al == a.m % 4096
             bh == b.m \div 4096
             bl == b.m % 4096
             mid == ah * bl + al * bh
             low == al * bl
             lfull == (mid % 4096) * 4096 + low
             L == lfull % Pow2(24)
             H == ah * bh + (mid \div 4096) + (lfull \div Pow2(24))
             top == H * 8 + (L \div Pow2(21))
             M == IF L % Pow2(21) > 0 /\ top % 2 = 0 THEN top + 1 ELSE top
         IN  F32Round(M, a.x + b.x + 21)

\* a + b for finite a, b >= 0
F32Add(a, b) ==
    IF a.m = 0 THEN b
    ELSE IF b.m = 0 THEN a
    ELSE LET hi == IF a.x >= b.x THEN a ELSE b
             lo == IF a.x >= b.x THEN b ELSE a
         IN  F32Round(hi.m * 8 + ShiftRightSticky(lo.m * 8, hi.x - lo.x),
                      hi.x - 3)

\* a - b for finite a >= b >= 0
F32Sub(a, b) ==
    IF b.m = 0 THEN a
    ELSE F32Round(a.m * 8 - ShiftRightSticky(b.m * 8, a.x - b.x), a.x - 3)

\* quotient bits of rem / den, continued until q has 27 significant bits
RECURSIVE LongDiv(_, _, _, _)
LongDiv(q, rem, den, k) ==
    IF BitLen(q) >= 27 \/ (rem = 0 /\ q > 0)
    THEN [q |-> IF rem > 0 /\ q % 2 = 0 THEN q + 1 ELSE q, k |-> k]
    ELSE LongDiv(2 * q + (IF 2 * rem >= den THEN 1 ELSE 0),
                 (2 * rem) % den, den, k + 1)

\* n / d for integers 0 < n < 2^24, 0 <= d < 2^24, both converted to f32
F32DivInt(n, d) ==
    IF d = 0 THEN F32Inf
    ELSE LET r == LongDiv(n \div d, n % d, d, 0)
         IN  F32Round(r.q, 0 - r.k)

\* a > b (false whenever a NaN is involved)
F32Gt(a, b) ==
    IF a.c = "nan" \/ b.c = "nan" THEN FALSE
    ELSE IF b.c = "inf" THEN FALSE
    ELSE IF a.c = "inf" THEN TRUE
    ELSE IF a.m = 0 THEN FALSE
    ELSE IF b.m = 0 THEN TRUE
    ELSE a.x > b.x \/ (a.x = b.x /\ a.m > b.m)

\* the literals 0.9 and 0.1 as f32
F32_0_9 == F32DivInt(9, 10)
F32_0_1 == F32DivInt(1, 10)

---------------------------------------------------------------------------
(* Provider, Capability and the static configuration table *)

Provider == {"OpenAI", "Claude", "Copilot", "GhostLLM", "Ollama", "DeepSeek"}

Capability ==
    {"ChatCompletion", "CodeCompletion", "CodeAnalysis", "CodeExplanation",
     "CodeRefactoring", "TestGeneration", "ProjectContext",
     "CommitGeneration", "SecurityScanning", "Streaming"}

\* ProviderManager::configs, built once by create_default_configs
create_default_configs ==
    [p \in Provider |->
       CASE p = "OpenAI" ->
              [provider |-> "OpenAI", priority |-> 8,
               capabilities |-> {"ChatCompletion", "CodeCompletion",
                                 "CodeExplanation", "Streaming"},
               max_requests_per_minute |-> 60, timeout |-> 30,
               fallback_providers |-> <<"Claude", "Ollama">>]
         [] p = "Claude" ->
              [provider |-> "Claude", priority |-> 9,
               capabilities |-> {"ChatCompletion", "CodeCompletion",
                                 "CodeAnalysis", "CodeExplanation",
                                 "Streaming"},
               max_requests_per_minute |-> 50, timeout |-> 45,
               fallback_providers |-> <<"OpenAI", "Ollama">>]
         [] p = "Copilot" ->
              [provider |-> "Copilot", priority |-> 7,
               capabilities |-> {"CodeCompletion", "CodeExplanation"},
               max_requests_per_minute |-> 100, timeout |-> 15,
               fallback_providers |-> <<"OpenAI", "Claude">>]
         [] p = "GhostLLM" ->
              [provider |-> "GhostLLM", priority |-> 10,
               capabilities |-> Capability,
               max_requests_per_minute |-> 200, timeout |-> 5,
               fallback_providers |-> <<"Claude", "OpenAI">>]
         [] p = "Ollama" ->
              [provider |-> "Ollama", priority |-> 5,
               capabilities |-> {"ChatCompletion", "CodeCompletion",
                                 "CodeExplanation"},
               max_requests_per_minute |-> 1000, timeout |-> 60,
               fallback_providers |-> <<>>]
         [] p = "DeepSeek" ->
              [provider |-> "DeepSeek", priority |-> 6,
               capabilities |-> {"ChatCompletion", "CodeCompletion",
                                 "CodeExplanation", "CodeRefactoring",
                                 "TestGeneration"},
               max_requests_per_minute |-> 60, timeout |-> 30,
               fallback_providers |-> <<"OpenAI", "Claude">>]]

configs == create_default_configs

has_capability(config, capability) == capability \in config.capabilities

\* `for (provider, config) in &self.configs` walks a HashMap: the order is
\* not fixed by the program.  The loop keeps the first provider among those
\* of maximal score, so the rotations of one order give every result that
\* any order gives.
InsertionOrder ==
    <<"OpenAI", "Claude", "Copilot", "GhostLLM", "Ollama", "DeepSeek">>

Rotate(s, k) == [i \in 1..Len(s) |-> s[((i + k - 1) % Len(s)) + 1]]

ConfigOrders == {Rotate(InsertionOrder, k) : k \in 0..(Len(InsertionOrder) - 1)}

---------------------------------------------------------------------------
(* Adapters (impl ProviderClient) *)

ClientTypes ==
    {"OpenAIClient", "ClaudeClient", "CopilotClient", "GhostLLMClient",
     "OllamaClient", "DeepSeekClient"}

\* an adapter instance behind an Arc<dyn ProviderClient>: its type and a
\* number that tells the instances of one type apart
Client(type, inst) == [type |-> type, inst |-> inst]

NoClient == [type |-> "none", inst |-> 0]

\* ProviderClient::get_provider of each adapter
get_provider(client) ==
    CASE client.type = "OpenAIClient" -> "OpenAI"
      [] client.type = "ClaudeClient" -> "Claude"
      [] client.type = "CopilotClient" -> "Copilot"
      [] client.type = "GhostLLMClient" -> "GhostLLM"
      [] client.type = "OllamaClient" -> "Ollama"
      [] client.type = "DeepSeekClient" -> "DeepSeek"

\* the `provider` field each adapter writes into the ChatResponse it builds
OpenAIClient_response_provider == "OpenAI"
ClaudeClient_response_provider == "Claude"
CopilotClient_response_provider == "Copilot"
GhostLLMClient_response_provider == "GhostLLM"
OllamaClient_response_provider == "Ollama"
DeepSeekClient_response_provider == "DeepSeek"

response_provider(client) ==
    CASE client.type = "OpenAIClient" -> OpenAIClient_response_provider
      [] client.type = "ClaudeClient" -> ClaudeClient_response_provider
      [] client.type = "CopilotClient" -> CopilotClient_response_provider
      [] client.type = "GhostLLMClient" -> GhostLLMClient_response_provider
      [] client.type = "OllamaClient" -> OllamaClient_response_provider
      [] client.type = "DeepSeekClient" -> DeepSeekClient_response_provider

\* ZekeError variants a ProviderClient's chat_completion returns: Network
\* (the request or the decoding of its body failed) and Provider (a non-2xx
\* status) by the HTTP adapters, Auth (no valid credential) by CopilotClient
ErrorKinds == {"Network", "Provider", "Auth"}

\* Error::is_retryable: NetworkError, ProviderUnavailable, UnexpectedResponse
\* (ZekeError::Network, ZekeError::Provider, ZekeError::Json)
is_retryable(kind) == kind \in {"Network", "Provider", "Json"}

\* elapsed times of an adapter call, in microseconds: below one millisecond,
\* and two seconds
Durations == {400, 2000000}

\* Duration::as_millis
as_millis(d) == d \div 1000

---------------------------------------------------------------------------
(* ProviderHealth and the selector *)

\* the reading of Instant::now()
VARIABLE clock

\* the readings of the clock
MaxInstant == 2

\* ProviderHealth::new; `updates` is a history field: the outcomes applied
\* to the row since it was created
ProviderHealth_new(provider) ==
    [provider |-> provider, is_healthy |-> TRUE, last_check |-> clock,
     response_time |-> 0, error_rate |-> F32Zero, updates |-> <<>>]

\* the score select_best_provider computes for one provider
Score(provider, h) ==
    LET config == configs[provider]
        s0 == F32FromInt(config.priority)
    IN  IF provider \in DOMAIN h
        THEN LET ph == h[provider]
                 s1 == IF ~ph.is_healthy THEN F32Mul(s0, F32_0_1) ELSE s0
                 s2 == IF ph.response_time # 0
                       THEN F32Mul(s1, F32DivInt(1000,
                                                 as_millis(ph.response_time)))
                       ELSE s1
             IN  F32Mul(s2, F32Sub(F32One, ph.error_rate))
        ELSE s0

\* the score of every provider, as one pass of the loop computes them
Scores(h) == [provider \in Provider |-> Score(provider, h)]

\* the loop of select_best_provider without the has_capability test
RECURSIVE BestLoop_any_capability(_, _, _, _, _, _)
BestLoop_any_capability(order, i, capability, scores, best_provider, best_score) ==
    IF i > Len(order) THEN best_provider
    ELSE LET provider == order[i] IN
         IF F32Gt(scores[provider], best_score)
         THEN BestLoop_any_capability(order, i + 1, capability, scores,
                                      provider, scores[provider])
         ELSE BestLoop_any_capability(order, i + 1, capability, scores,
                                      best_provider, best_score)

\* the loop of select_best_provider from position i of the iteration order,
\* with the best provider and score found so far
RECURSIVE BestLoop(_, _, _, _, _, _)
BestLoop(order, i, capability, scores, best_provider, best_score) ==
    IF i > Len(order) THEN best_provider
    ELSE LET provider == order[i] IN
         IF ~has_capability(configs[provider], capability)
         THEN BestLoop(order, i + 1, capability, scores,
                       best_provider, best_score)
         ELSE IF F32Gt(scores[provider], best_score)
         THEN BestLoop(order, i + 1, capability, scores,
                       provider, scores[provider])
         ELSE BestLoop(order, i + 1, capability, scores,
                       best_provider, best_score)

\* select_best_provider: a provider, or "None" for the Err it returns
select_best_provider(order, capability, scores) ==
    BestLoop(order, 1, capability, scores, "None", F32Zero)

\* select_providers_with_fallback appending every fallback of the primary
select_providers_with_fallback_unfiltered(order, capability, scores) ==
    LET primary == BestLoop(order, 1, capability, scores, "None", F32Zero) IN
    IF primary = "None" THEN <<>>
    ELSE <<primary>> \o configs[primary].fallback_providers

\* select_providers_with_fallback: the list, empty standing for
\* Err("No providers available for capability")
select_providers_with_fallback(order, capability, scores) ==
    LET primary == select_best_provider(order, capability, scores) IN
    IF primary = "None" THEN <<>>
    ELSE <<primary>> \o
         SelectSeq(configs[primary].fallback_providers,
                   LAMBDA f : has_capability(configs[f], capability))

\* update_health with the error value of the two outcomes exchanged
update_health_inverted(h, provider, is_healthy, response_time) ==
    IF provider \in DOMAIN h
    THEN LET error_value == IF is_healthy THEN F32One ELSE F32Zero IN
         [h EXCEPT ![provider] =
            [provider |-> @.provider,
             is_healthy |-> is_healthy,
             last_check |-> clock,
             response_time |-> response_time,
             error_rate |-> F32Add(F32Mul(@.error_rate, F32_0_9),
                                   F32Mul(error_value, F32_0_1)),
             updates |-> Append(@.updates, is_healthy)]]
    ELSE h

\* update_health writing an error_rate computed from the row as it was
\* created, whatever was applied to it since
update_health_from_new_row(h, provider, is_healthy, response_time) ==
    IF provider \in DOMAIN h
    THEN LET error_value == IF is_healthy THEN F32Zero ELSE F32One IN
         [h EXCEPT ![provider] =
            [provider |-> @.provider,
             is_healthy |-> is_healthy,
             last_check |-> clock,
             response_time |-> response_time,
             error_rate |-> F32Add(F32Mul(F32Zero, F32_0_9),
                                   F32Mul(error_value, F32_0_1)),
             updates |-> Append(@.updates, is_healthy)]]
    ELSE h

\* update_health leaving last_check as it was
update_health_keeps_last_check(h, provider, is_healthy, response_time) ==
    IF provider \in DOMAIN h
    THEN LET error_value == IF is_healthy THEN F32Zero ELSE F32One IN
         [h EXCEPT ![provider] =
            [provider |-> @.provider,
             is_healthy |-> is_healthy,
             last_check |-> @.last_check,
             response_time |-> response_time,
             error_rate |-> F32Add(F32Mul(@.error_rate, F32_0_9),
                                   F32Mul(error_value, F32_0_1)),
             updates |-> Append(@.updates, is_healthy)]]
    ELSE h

\* update_health adding the error value to the rate without the decay of
\* the old rate
update_health_without_decay(h, provider, is_healthy, response_time) ==
    IF provider \in DOMAIN h
    THEN LET error_value == IF is_healthy THEN F32Zero ELSE F32One IN
         [h EXCEPT ![provider] =
            [provider |-> @.provider,
             is_healthy |-> is_healthy,
             last_check |-> clock,
             response_time |-> response_time,
             error_rate |-> F32Add(@.error_rate,
                                   F32Mul(error_value, F32_0_1)),
             updates |-> Append(@.updates, is_healthy)]]
    ELSE h

\* update_health applied to the health map
update_health(h, provider, is_healthy, response_time) ==
    IF provider \in DOMAIN h
    THEN LET error_value == IF is_healthy THEN F32Zero ELSE F32One IN
         [h EXCEPT ![provider] =
            [provider |-> @.provider,
             is_healthy |-> is_healthy,
             last_check |-> clock,
             response_time |-> response_time,
             error_rate |-> F32Add(F32Mul(@.error_rate, F32_0_9),
                                   F32Mul(error_value, F32_0_1)),
             updates |-> Append(@.updates, is_healthy)]]
    ELSE h


---------------------------------------------------------------------------
(* The streaming pipeline: text operations *)

\* longest response content an adapter returns to a stream, in characters
MaxContent == 5

\* adapters registered with the StreamManager
MaxStreamClients == 1

\* the characters of a response content: letters, space and newline
Alphabet == {"a", "b", " ", "\n"}

\* char::is_whitespace, on the characters that occur
is_whitespace(c) == c \in {" ", "\n", "\t"}

\* response contents: the strings over Alphabet of length at most n
Strings(n) == UNION {[1..k -> Alphabet] : k \in 0..n}

Contents == Strings(MaxContent)

\* str::split_whitespace: the maximal runs of characters that are not
\* whitespace, in order
WordStarts(s) ==
    {i \in 1..Len(s) :
        ~is_whitespace(s[i]) /\ (i = 1 \/ is_whitespace(s[i - 1]))}

WordEnd(s, i) ==
    CHOOSE j \in i..Len(s) :
        /\ \A k \in i..j : ~is_whitespace(s[k])
        /\ j = Len(s) \/ is_whitespace(s[j + 1])

split_whitespace(s) ==
    LET starts == WordStarts(s)
        nth(k) == CHOOSE i \in starts :
                     Cardinality({j \in starts : j < i}) = k - 1
    IN  [k \in 1..Cardinality(starts) |->
            SubSeq(s, nth(k), WordEnd(s, nth(k)))]

\* slice::chunks(chunk_size): consecutive groups of chunk_size items, the
\* last one possibly shorter
chunks(words, chunk_size) ==
    [c \in 1..((Len(words) + chunk_size - 1) \div chunk_size) |->
        SubSeq(words, (c - 1) * chunk_size + 1,
               IF c * chunk_size < Len(words) THEN c * chunk_size
               ELSE Len(words))]

\* [&str]::join(sep)
RECURSIVE join(_, _)
join(chunk, sep) ==
    IF chunk = <<>> THEN <<>>
    ELSE IF Len(chunk) = 1 THEN chunk[1]
    ELSE chunk[1] \o sep \o join(Tail(chunk), sep)

\* the delta of chunk number i (from 0) without the space that separates
\* it from the chunk before
delta_of_unseparated(i, chunk) == join(chunk, <<" ">>)

\* the delta of chunk number i (from 0):
\* if i == 0 { delta } else { format!(" {}", delta) }
delta_of(i, chunk) ==
    LET delta == join(chunk, <<" ">>)
    IN  IF i = 0 THEN delta ELSE <<" ">> \o delta

\* StreamedResponse yielded as Ok, and an Err(e) yielded by the stream
StreamedResponse(delta, provider, finished) ==
    [ok |-> TRUE, delta |-> delta, provider |-> provider,
     finished |-> finished, error |-> "none"]

StreamError(e) ==
    [ok |-> FALSE, delta |-> <<>>, provider |-> "None", finished |-> FALSE,
     error |-> e]

\* get_full_response: the content simulated for each provider
SimulatedContent(provider) ==
    CASE provider = "OpenAI" ->
        <<"T", "h", "i", "s", " ", "i", "s", " ", "a", " ", "s", "i", "m",
          "u", "l", "a", "t", "e", "d", " ", "O", "p", "e", "n", "A", "I",
          " ", "s", "t", "r", "e", "a", "m", "i", "n", "g", " ", "r", "e",
          "s", "p", "o", "n", "s", "e", " ", "w", "i", "t", "h", " ", "m",
          "u", "l", "t", "i", "p", "l", "e", " ", "w", "o", "r", "d", "s",
          " ", "t", "o", " ", "d", "e", "m", "o", "n", "s", "t", "r", "a",
          "t", "e", " ", "t", "h", "e", " ", "s", "t", "r", "e", "a", "m",
          "i", "n", "g", " ", "c", "a", "p", "a", "b", "i", "l", "i", "t",
          "y", ".">>
      [] provider = "Claude" ->
        <<"T", "h", "i", "s", " ", "i", "s", " ", "a", " ", "s", "i", "m",
          "u", "l", "a", "t", "e", "d", " ", "C", "l", "a", "u", "d", "e",
          " ", "s", "t", "r", "e", "a", "m", "i", "n", "g", " ", "r", "e",
          "s", "p", "o", "n", "s", "e", " ", "s", "h", "o", "w", "c", "a",
          "s", "i", "n", "g", " ", "t", "h", "e", " ", "r", "e", "a", "l",
          "-", "t", "i", "m", "e", " ", "t", "e", "x", "t", " ", "g", "e",
          "n", "e", "r", "a", "t", "i", "o", "n", " ", "f", "e", "a", "t",
          "u", "r", "e", ".">>
      [] provider = "GhostLLM" ->
        <<"T", "h", "i", "s", " ", "i", "s", " ", "a", " ", "s", "i", "m",
          "u", "l", "a", "t", "e", "d", " ", "G", "h", "o", "s", "t", "L",
          "L", "M", " ", "s", "t", "r", "e", "a", "m", "i", "n", "g", " ",
          "r", "e", "s", "p", "o", "n", "s", "e", " ", "d", "e", "m", "o",
          "n", "s", "t", "r", "a", "t", "i", "n", "g", " ", "h", "i", "g",
          "h", "-", "p", "e", "r", "f", "o", "r", "m", "a", "n", "c", "e",
          " ", "G", "P", "U", " ", "i", "n", "f", "e", "r", "e", "n", "c",
          "e", " ", "c", "a", "p", "a", "b", "i", "l", "i", "t", "i", "e",
          "s", ".">>
      [] provider = "Ollama" ->
        <<"T", "h", "i", "s", " ", "i", "s", " ", "a", " ", "s", "i", "m",
          "u", "l", "a", "t", "e", "d", " ", "O", "l", "l", "a", "m", "a",
          " ", "s", "t", "r", "e", "a", "m", "i", "n", "g", " ", "r", "e",
          "s", "p", "o", "n", "s", "e", " ", "f", "r", "o", "m", " ", "y",
          "o", "u", "r", " ", "l", "o", "c", "a", "l", " ", "m", "o", "d",
          "e", "l", " ", "r", "u", "n", "n", "i", "n", "g", " ", "o", "n",
          " ", "t", "h", "i", "s", " ", "m", "a", "c", "h", "i", "n", "e",
          ".">>
      [] provider = "Copilot" ->
        <<"T", "h", "i", "s", " ", "i", "s", " ", "a", " ", "s", "i", "m",
          "u", "l", "a", "t", "e", "d", " ", "G", "i", "t", "H", "u", "b",
          " ", "C", "o", "p", "i", "l", "o", "t", " ", "s", "t", "r", "e",
          "a", "m", "i", "n", "g", " ", "r", "e", "s", "p", "o", "n", "s",
          "e", " ", "f", "o", "r", " ", "c", "o", "d", "e", " ", "c", "o",
          "m", "p", "l", "e", "t", "i", "o", "n", " ", "a", "n", "d", " ",
          "a", "s", "s", "i", "s", "t", "a", "n", "c", "e", ".">>
      [] provider = "DeepSeek" ->
        <<"T", "h", "i", "s", " ", "i", "s", " ", "a", " ", "s", "i", "m",
          "u", "l", "a", "t", "e", "d", " ", "D", "e", "e", "p", "S", "e",
          "e", "k", " ", "s", "t", "r", "e", "a", "m", "i", "n", "g", " ",
          "r", "e", "s", "p", "o", "n", "s", "e", " ", "d", "e", "m", "o",
          "n", "s", "t", "r", "a", "t", "i", "n", "g", " ", "a", "d", "v",
          "a", "n", "c", "e", "d", " ", "r", "e", "a", "s", "o", "n", "i",
          "n", "g", " ", "a", "n", "d", " ", "c", "o", "d", "e", " ", "g",
          "e", "n", "e", "r", "a", "t", "i", "o", "n", " ", "c", "a", "p",
          "a", "b", "i", "l", "i", "t", "i", "e", "s", ".">>

\* the SSE event claude_messages_stream_handler makes of a stream item
SseEvent(item) ==
    IF item.ok
    THEN IF item.finished
         THEN [type |-> "message_stop", text |-> <<>>, message |-> "none"]
         ELSE [type |-> "content_block_delta", text |-> item.delta,
               message |-> "none"]
    ELSE [type |-> "error", text |-> <<>>, message |-> item.error]

\* no stream has been created; provider_clients is StreamManager's map,
\* response what the adapter's chat_completion returned to the stream
NoStream ==
    [flavor |-> "none", pc |-> "none", provider |-> "None",
     provider_clients |-> {}, response |-> "none", content |-> <<>>,
     words |-> <<>>, chunk_size |-> 0, i |-> 0, items |-> <<>>]

---------------------------------------------------------------------------
(* The action-approval engine: requests, rules and the two caches *)

\* rules an approver holds at once, and approvals its caches hold at once
MaxRules == 2
MaxStored == 2

\* strings, as the sequences of their characters
Path_a_rs == <<"a", ".", "r", "s">>
Path_b_txt == <<"b", ".", "t", "x", "t">>
Command_rm_rf_x == <<"r", "m", " ", "-", "r", "f", " ", "x">>
Command_ls == <<"l", "s">>
Project_p == <<"/", "p">>

\* str::contains(pattern)
contains(s, pattern) ==
    \E i \in 0..(Len(s) - Len(pattern)) :
        SubSeq(s, i + 1, i + Len(pattern)) = pattern

\* glob.replace("*", "")
replace_star(glob) == SelectSeq(glob, LAMBDA c : c # "*")

\* ActionType values: the variant and its content field
FileWrite(path) == [tag |-> "FileWrite", content |-> path]
CommandExecution(command) == [tag |-> "CommandExecution", content |-> command]

ActionTypes ==
    {FileWrite(Path_a_rs), FileWrite(Path_b_txt),
     CommandExecution(Command_rm_rf_x), CommandExecution(Command_ls)}

\* ActionContext::project_path: None or Some(path)
ProjectPaths == {<<>>, <<Project_p>>}

RequestIds == {"id1", "id2"}

\* ActionRequest: id, action_type and the project_path of its context
ActionRequests ==
    [id : RequestIds, action_type : ActionTypes, project_path : ProjectPaths]

NoRequest == [id |-> "none", action_type |-> [tag |-> "none", content |-> <<>>],
              project_path |-> <<>>]

\* the hour of chrono::Local::now() at an evaluation
Hours == {8, 17}

\* ApprovalRule::deny_dangerous_commands()
deny_dangerous_commands ==
    [name |-> "deny_dangerous_commands",
     action_pattern |-> [kind |-> "CommandPattern",
                         arg |-> <<"r", "m", " ", "-", "r", "f">>],
     auto_approve |-> FALSE,
     conditions |-> <<>>]

\* ApprovalRule::allow_file_reads_in_project(project_path)
allow_file_reads_in_project(project_path) ==
    [name |-> "auto_allow_project_reads",
     action_pattern |-> [kind |-> "FilePattern",
                         arg |-> <<"*", ".", "r", "s">>],
     auto_approve |-> TRUE,
     conditions |-> <<[kind |-> "ProjectScope", scope |-> project_path,
                       start_hour |-> 0, end_hour |-> 0]>>]

\* rules a user adds: one for every action, one for a variant in a time
\* window
allow_all ==
    [name |-> "allow_all",
     action_pattern |-> [kind |-> "All", arg |-> <<>>],
     auto_approve |-> TRUE,
     conditions |-> <<[kind |-> "SessionProperty", scope |-> <<>>,
                       start_hour |-> 0, end_hour |-> 0]>>]

deny_writes_in_office_hours ==
    [name |-> "deny_writes_in_office_hours",
     action_pattern |-> [kind |-> "ActionType", arg |-> FileWrite(<<>>)],
     auto_approve |-> FALSE,
     conditions |-> <<[kind |-> "TimeWindow", scope |-> <<>>,
                       start_hour |-> 9, end_hour |-> 17]>>]

ApprovalRules ==
    {deny_dangerous_commands, allow_file_reads_in_project(Project_p),
     allow_all, deny_writes_in_office_hours}

\* the rule of the given name
RuleNamed(name) == CHOOSE rule \in ApprovalRules : rule.name = name

\* TerminalApprover::action_matches_pattern
action_matches_pattern(action, pattern) ==
    CASE pattern.kind = "All" -> TRUE
      [] pattern.kind = "ActionType" -> action.tag = pattern.arg.tag
      [] pattern.kind = "FilePattern" ->
           IF action.tag \in {"FileWrite", "FileRead", "FileDelete"}
           THEN contains(action.content, replace_star(pattern.arg))
           ELSE FALSE
      [] pattern.kind = "CommandPattern" ->
           IF action.tag = "CommandExecution"
           THEN contains(action.content, pattern.arg)
           ELSE FALSE

\* one turn of the loop of check_rule_conditions: TRUE when the condition
\* does not make it return false
condition_holds(request, condition, current_hour) ==
    CASE condition.kind = "ProjectScope" ->
           IF request.project_path # <<>>
           THEN contains(request.project_path[1], condition.scope)
           ELSE FALSE
      [] condition.kind = "SessionProperty" -> TRUE
      [] condition.kind = "TimeWindow" ->
           ~(current_hour < condition.start_hour
               \/ current_hour > condition.end_hour)

\* TerminalApprover::check_rule_conditions
check_rule_conditions(request, conditions, current_hour) ==
    \A k \in 1..Len(conditions) :
        condition_holds(request, conditions[k], current_hour)

\* check_auto_approval answering AllowedOnce whatever auto_approve is
RECURSIVE check_auto_approval_always_allows(_, _, _)
check_auto_approval_always_allows(order, request, current_hour) ==
    IF order = <<>> THEN "None"
    ELSE LET rule == RuleNamed(Head(order)) IN
         IF /\ action_matches_pattern(request.action_type,
                                      rule.action_pattern)
            /\ check_rule_conditions(request, rule.conditions, current_hour)
         THEN "AllowedOnce"
         ELSE check_auto_approval_always_allows(Tail(order), request,
                                                current_hour)

\* TerminalApprover::check_auto_approval: `for rule in rules.values()`
\* over the rules in the order the map yields them; "None" for Ok(None)
RECURSIVE check_auto_approval(_, _, _)
check_auto_approval(order, request, current_hour) ==
    IF order = <<>> THEN "None"
    ELSE LET rule == RuleNamed(Head(order)) IN
         IF /\ action_matches_pattern(request.action_type,
                                      rule.action_pattern)
            /\ check_rule_conditions(request, rule.conditions, current_hour)
         THEN IF rule.auto_approve THEN "AllowedOnce" ELSE "Denied"
         ELSE check_auto_approval(Tail(order), request, current_hour)

\* TerminalApprover::check_existing_approvals on the two caches
check_existing_approvals(session_approvals, project_approvals, request) ==
    IF /\ request.action_type \in DOMAIN session_approvals
       /\ session_approvals[request.action_type] = "AllowedSession"
    THEN "AllowedSession"
    ELSE IF /\ request.project_path # <<>>
            /\ request.project_path[1] \in DOMAIN project_approvals
            /\ request.action_type \in
                  DOMAIN project_approvals[request.project_path[1]]
            /\ project_approvals[request.project_path[1]]
                  [request.action_type] \in {"AllowedProject", "Denied"}
    THEN project_approvals[request.project_path[1]][request.action_type]
    ELSE "None"

\* request_approval consulting the caches before the rules
request_approval_caches_first(a, request, current_hour) ==
    LET auto_status == check_auto_approval(a.order, request, current_hour)
        existing_status == check_existing_approvals(a.session_approvals,
                              a.project_approvals, request)
    IN  IF existing_status # "None" THEN existing_status
        ELSE IF auto_status # "None" THEN auto_status
        ELSE "Prompt"

\* TerminalApprover::request_approval up to prompt_user: the status it
\* returns, or "Prompt" when it goes on to prompt the user
request_approval(a, request, current_hour) ==
    LET auto_status == check_auto_approval(a.order, request, current_hour)
        existing_status == check_existing_approvals(a.session_approvals,
                              a.project_approvals, request)
    IN  IF auto_status # "None" THEN auto_status
        ELSE IF existing_status # "None" THEN existing_status
        ELSE "Prompt"

\* what prompt_user returns in the source: the simulated choice
prompt_user == "AllowedOnce"

\* the choices the prompt offers: [A] Allow Once, [S] Allow Session,
\* [P] Allow Project, [D] Deny
UserChoices ==
    {prompt_user, "AllowedSession", "AllowedProject", "Denied"}

\* TerminalApprover::store_approval
store_approval(a, request, status) ==
    CASE status = "AllowedSession" ->
           [a EXCEPT !.session_approvals =
               (request.action_type :> status) @@ @]
      [] status = "AllowedProject" ->
           IF request.project_path # <<>>
           THEN LET project_path == request.project_path[1]
                    project_map ==
                       IF project_path \in DOMAIN a.project_approvals
                       THEN a.project_approvals[project_path]
                       ELSE << >>
                IN  [a EXCEPT !.project_approvals =
                        (project_path :>
                           ((request.action_type :> status) @@ project_map))
                        @@ @]
           ELSE a
      [] OTHER -> a

\* approvals held by the two caches
StoredCount(a) ==
    Cardinality(DOMAIN a.session_approvals)
      + Cardinality({<<p, t>> \in (DOMAIN a.project_approvals) \X ActionTypes :
                        t \in DOMAIN a.project_approvals[p]})

\* TerminalApprover::new; order is the order in which the rules map
\* yields its values
TerminalApprover_new ==
    [order |-> <<>>, session_approvals |-> << >>, project_approvals |-> << >>]

\* no request_approval has been made
NoReply ==
    [pc |-> "none", request |-> NoRequest, hour |-> 0, status |-> "none",
     prompted |-> FALSE, request_id |-> "none"]

\* callers of ActionManager::request_approval, each making one call
MaxCallers == 3

Callers == 1..MaxCallers

\* a caller that has not called request_approval
IdleCaller == [pc |-> "idle", request |-> NoRequest, status |-> "none"]

\* ActionManager::new: the channel is empty, no reply channel is stored and
\* the background task waits in recv; sent and received keep the ids in
\* the order they were put on and taken off the channel, failed the ids of
\* the requests for which the approver returned Err
ActionManager_new ==
    [callers |-> [c \in Callers |-> IdleCaller],
     channel |-> <<>>,
     response_receivers |-> {},
     in_approver |-> {},
     sent |-> <<>>,
     received |-> <<>>,
     failed |-> {}]

---------------------------------------------------------------------------
(* The TaskManager of the todo tool *)

\* tasks a list holds at once, and tasks in a list given to set_task_list
MaxListLen == 3
MaxGivenLen == 2

TaskIds == {"t1", "t2", "t3"}

TaskStatus == {"Pending", "InProgress", "Completed", "Blocked", "Cancelled"}

\* any Task value, as its id, status and dependencies (the other fields
\* play no part in the operations): the fields are public and the type can
\* be deserialized
Tasks_of(ids, dependency_ids) ==
    [id : ids, status : TaskStatus, dependencies : SUBSET dependency_ids]

\* list.tasks.iter().position(|t| t.id == task_id); 0 for None
position(list, task_id) ==
    IF \E k \in 1..Len(list) : list[k].id = task_id
    THEN CHOOSE k \in 1..Len(list) :
            /\ list[k].id = task_id
            /\ \A j \in 1..(k - 1) : list[j].id # task_id
    ELSE 0

\* the index built by `for (i, task) in tasks.iter().enumerate()`: a later
\* task of the same id overwrites an earlier one (indices from 0)
index_of(list) ==
    [id \in {list[k].id : k \in 1..Len(list)} |->
        (CHOOSE k \in 1..Len(list) :
            /\ list[k].id = id
            /\ \A j \in (k + 1)..Len(list) : list[j].id # id) - 1]

\* TaskList::remove_task
remove_at(list, pos) == SubSeq(list, 1, pos - 1) \o SubSeq(list, pos + 1, Len(list))

\* `other_in_progress` of update_task_status
other_in_progress(list, task_id) ==
    Cardinality({k \in 1..Len(list) :
                    list[k].id # task_id /\ list[k].status = "InProgress"})

\* update_task_status without the arm for a cancelled task
update_task_status_cancelled_reopens(list, task_id, status) ==
    LET task_index == position(list, task_id) IN
    IF task_index = 0 THEN [result |-> "Err", error |-> "not found", list |-> list]
    ELSE IF list[task_index].status = "Completed"
    THEN [result |-> "Err", error |-> "completed", list |-> list]
    ELSE IF status = "InProgress" /\ other_in_progress(list, task_id) > 0
    THEN [result |-> "Err", error |-> "another in progress", list |-> list]
    ELSE [result |-> "Ok", error |-> "none",
          list |-> [list EXCEPT ![task_index].status = status]]

\* TaskManager::update_task_status on the list: the result and the list it
\* leaves
update_task_status(list, task_id, status) ==
    LET task_index == position(list, task_id) IN
    IF task_index = 0 THEN [result |-> "Err", error |-> "not found", list |-> list]
    ELSE IF list[task_index].status = "Completed"
    THEN [result |-> "Err", error |-> "completed", list |-> list]
    ELSE IF list[task_index].status = "Cancelled"
    THEN [result |-> "Err", error |-> "cancelled", list |-> list]
    ELSE IF status = "InProgress" /\ other_in_progress(list, task_id) > 0
    THEN [result |-> "Err", error |-> "another in progress", list |-> list]
    ELSE [result |-> "Ok", error |-> "none",
          list |-> [list EXCEPT ![task_index].status = status]]

\* no TaskManager operation has returned
NoTodoReturn == [op |-> "none", result |-> "none", error |-> "none"]

\* TaskManager::new
TaskManager_new ==
    [list |-> <<>>, task_index |-> << >>, ret |-> NoTodoReturn]

---------------------------------------------------------------------------
(* The Copilot adapter's bearer token *)

\* seconds the clock advances in all
MaxTicks == 3

\* SystemTime::now() as seconds when the adapter is constructed
StartTime == 1000

\* the window of needs_refresh, in seconds
RefreshWindow == 300

\* expires_in of a token response: absent, or seconds
ExpiresIn == {<<>>, <<1>>, <<301>>}

\* refresh_token of a token response: absent or present
RefreshTokens == {<<>>, <<"refresh">>}

\* AuthToken::new(..).with_expiry(expires_in).with_refresh_token(..) at
\* time now; expires_at and refresh_token are <<>> for None
AuthToken_new(access_token, expires_in, refresh_token, now) ==
    [access_token |-> access_token,
     expires_at |-> IF expires_in = <<>> THEN <<>> ELSE <<now + expires_in[1]>>,
     refresh_token |-> refresh_token]

\* AuthToken::is_expired at time now
is_expired(token, now) ==
    IF token.expires_at # <<>> THEN now >= token.expires_at[1] ELSE FALSE

\* AuthToken::needs_refresh at time now: (expires_at - now) < 300 on u64.
\* With now past expires_at the subtraction overflows: "overflow" stands
\* for that case
needs_refresh(token, now) ==
    IF token.expires_at # <<>>
    THEN IF now > token.expires_at[1] THEN "overflow"
         ELSE IF token.expires_at[1] - now < RefreshWindow THEN "true"
         ELSE "false"
    ELSE "false"

\* no get_valid_token call is in progress or has returned
NoTokenCall ==
    [pc |-> "idle", token |-> <<>>, now |-> 0, now_again |-> 0, grants |-> 0,
     granted_with |-> <<>>, grant |-> "none", result |-> "none",
     value |-> "none"]

\* CopilotClient::new: auth_token is None
CopilotClient_new ==
    [auth_token |-> <<>>, now |-> StartTime, call |-> NoTokenCall]

---------------------------------------------------------------------------
(* The HTTP gateway: handlers of the chat endpoints (api/mod.rs) *)

\* the handlers that answer with one chat completion
GatewayHandlers == {"chat_handler", "claude_messages_handler"}

\* no response sent yet
NoResponse ==
    [handler |-> "none", completion |-> "none", kind |-> "none",
     status |-> 0, success |-> FALSE, error |-> <<>>]

\* Display of a ZekeError: the text of its kind, then its message
to_string(kind, message) == <<kind, " error: ", message>>

\* chat_handler: both arms of the match return Ok(Json(..)), which axum
\* answers with 200 OK; a failure is told in the body only
chat_handler(completion) ==
    IF completion.kind = "ok"
    THEN [handler |-> "chat_handler", completion |-> "ok", kind |-> "none",
          status |-> 200, success |-> TRUE, error |-> <<>>]
    ELSE [handler |-> "chat_handler", completion |-> "err",
          kind |-> completion.error,
          status |-> 200, success |-> FALSE,
          error |-> to_string(completion.error, completion.message)]

\* claude_messages_handler: Ok(Json(..)) on success, and
\* Err(StatusCode::INTERNAL_SERVER_ERROR) for every error
claude_messages_handler(completion) ==
    IF completion.kind = "ok"
    THEN [handler |-> "claude_messages_handler", completion |-> "ok",
          kind |-> "none", status |-> 200, success |-> TRUE, error |-> <<>>]
    ELSE [handler |-> "claude_messages_handler", completion |-> "err",
          kind |-> completion.error,
          status |-> 500, success |-> FALSE, error |-> <<>>]

---------------------------------------------------------------------------
(* The health map behind its RwLock: update_health field by field *)

\* updates begun in the specification of the lock
MaxWrites == 3

\* the tasks that update and read the health map
HealthLockTasks == {1, 2}

\* the fields update_health assigns, in the order of its statements
HealthFields == <<"is_healthy", "last_check", "response_time", "error_rate">>

\* the locals of update_health while it holds the write guard; written
\* counts the fields it has assigned
NoJob ==
    [provider |-> "None", is_healthy |-> FALSE, response_time |-> 0,
     written |-> 0]

\* nothing read yet: read counts the fields copied, row holds them and
\* stamps tells which update had assigned each
NoSeen ==
    [provider |-> "None", read |-> 0, row |-> <<>>, stamps |-> <<>>]

\* the function f extended by k |-> v
With(f, k, v) ==
    [j \in DOMAIN f \cup {k} |-> IF j = k THEN v ELSE f[j]]

\* the RwLock of ProviderManager::health: the task holding the write guard
\* (0: none) and those holding read guards.  serial numbers the updates,
\* stamps tells for each field of each row which update assigned it (0: the
\* creation of the row), seen is what each reader has copied
HealthLock_new ==
    [writer |-> 0, readers |-> {}, job |-> NoJob, serial |-> 0,
     stamps |-> [p \in Provider |->
                   [f \in {HealthFields[i] : i \in 1..4} |-> 0]],
     seen |-> [t \in HealthLockTasks |-> NoSeen]]

---------------------------------------------------------------------------
(* The WebSocket server of the streaming pipeline *)

\* connections the listener accepts in all
MaxConnections == 2

Conns == 1..MaxConnections

\* the values Uuid::new_v4 hands out
Uuids == {"u1", "u2"}

\* timestamps of Ping and Pong messages, payloads of native ping frames
Timestamps == {0, 7}
Payloads == {"", "p"}

\* an item of ws_stream.next(): kind is the Message variant, "Err" for
\* Some(Err(_)) and "None" for the end of the stream.  A text frame holds a
\* JSON object with its type tag and timestamp field (<<>>: absent), or
\* "not json"; a native ping or pong holds a payload
Frame(kind, type, timestamp, payload) ==
    [kind |-> kind, type |-> type, timestamp |-> timestamp,
     payload |-> payload]

NoFrame == Frame("None", "", <<>>, "")

\* the variants of StreamMessage, the values of the tag "type"
StreamMessageTypes ==
    {"ChatDelta", "Error", "StreamStart", "StreamEnd", "Ping", "Pong"}

\* the text frames a client sends: every field of the variant other than
\* timestamp is taken to be present
Texts ==
    {Frame("Text", "not json", <<>>, "")}
    \cup {Frame("Text", type, <<>>, "") :
             type \in {"ChatDelta", "StreamEnd", "Ping", "subscribe"}}
    \cup {Frame("Text", type, <<ts>>, "") :
             type \in {"Ping", "Pong", "ping"}, ts \in Timestamps}

Frames ==
    Texts
    \cup {Frame("Ping", "", <<>>, p) : p \in Payloads}
    \cup {Frame(kind, "", <<>>, "") :
             kind \in {"Binary", "Pong", "Close", "Frame", "Err", "None"}}

\* serde_json::from_str::<StreamMessage>: the message, or <<>> for Err
from_str(text) ==
    IF text.type \notin StreamMessageTypes THEN <<>>
    ELSE IF text.type \in {"Ping", "Pong"}
    THEN IF text.timestamp = <<>> THEN <<>>
         ELSE <<[type |-> text.type, timestamp |-> text.timestamp[1]]>>
    ELSE <<[type |-> text.type, timestamp |-> 0]>>

\* serde_json::to_string of StreamMessage::Pong { timestamp } in a text frame
Pong_text(timestamp) == Frame("Text", "Pong", <<timestamp>>, "")

\* process_message: the frame handed to ws_stream.send, NoFrame when none
process_message(message) ==
    IF message.type = "Ping" THEN Pong_text(message.timestamp) ELSE NoFrame

\* one pass of the loop of handle_messages: the frame handed to
\* ws_stream.send and whether the loop is left
handle_messages(frame, send_ok) ==
    CASE frame.kind = "Text" ->
           [sent |-> IF from_str(frame) = <<>> THEN NoFrame
                     ELSE process_message(from_str(frame)[1]),
            left |-> FALSE]
      [] frame.kind = "Ping" ->
           [sent |-> Frame("Pong", "", <<>>, frame.payload),
            left |-> ~send_ok]
      [] frame.kind \in {"Binary", "Pong", "Frame"} ->
           [sent |-> NoFrame, left |-> FALSE]
      [] frame.kind \in {"Close", "Err", "None"} ->
           [sent |-> NoFrame, left |-> TRUE]

\* a handler that is not running
NoHandler ==
    [pc |-> "idle", connection_id |-> "", frame |-> NoFrame,
     sent |-> NoFrame, send_ok |-> FALSE, result |-> "none"]

\* StreamServer::new: no connection yet.  issued holds the ids handed out
StreamServer_new ==
    [connections |-> <<>>, handlers |-> [c \in Conns |-> NoHandler],
     issued |-> {}]

\* StreamServer::connection_count
connection_count(s) == Cardinality(DOMAIN s.connections)

\* register_provider as one call on the maps [providers, health]
register_provider(maps, client) ==
    LET provider == get_provider(client) IN
    [providers |-> (provider :> client) @@ maps.providers,
     health |-> (provider :> ProviderHealth_new(provider)) @@ maps.health]

\* environment variables the adapters' constructors read
EnvVars == {"OPENAI_API_KEY", "CLAUDE_API_KEY", "DEEPSEEK_API_KEY"}

\* GhostLLMClient::new refusing to build without GHOSTLLM_API_KEY, as the
\* adapters of the hosted providers do without their keys
GhostLLMClient_new_needs_key(env) == "GHOSTLLM_API_KEY" \in env

\* whether each adapter's new() returns Ok under the environment env
GhostLLMClient_new(env) == TRUE
OpenAIClient_new(env) == "OPENAI_API_KEY" \in env
ClaudeClient_new(env) ==
    "CLAUDE_API_KEY" \in env \/ "ANTHROPIC_API_KEY" \in env
OllamaClient_new(env) == TRUE
DeepSeekClient_new(env) == "DEEPSEEK_API_KEY" \in env

\* initialize_default_providers: the adapters it registers, in its order;
\* inst numbers the adapters built by this call
DefaultClients(env, inst) ==
    (IF GhostLLMClient_new(env)
     THEN <<Client("GhostLLMClient", inst)>> ELSE <<>>)
    \o (IF OpenAIClient_new(env)
        THEN <<Client("OpenAIClient", inst)>> ELSE <<>>)
    \o (IF ClaudeClient_new(env)
        THEN <<Client("ClaudeClient", inst)>> ELSE <<>>)
    \o (IF OllamaClient_new(env)
        THEN <<Client("OllamaClient", inst)>> ELSE <<>>)
    \o (IF DeepSeekClient_new(env)
        THEN <<Client("DeepSeekClient", inst)>> ELSE <<>>)

RECURSIVE RegisterAll(_, _)
RegisterAll(maps, clients) ==
    IF clients = <<>> THEN maps
    ELSE RegisterAll(register_provider(maps, Head(clients)), Tail(clients))

\* initialize_default_providers giving up, with nothing registered, when an
\* adapter cannot be built
initialize_default_providers_all_or_nothing(maps, env, inst) ==
    IF OpenAIClient_new(env) /\ ClaudeClient_new(env)
       /\ DeepSeekClient_new(env)
    THEN RegisterAll(maps, DefaultClients(env, inst))
    ELSE maps

initialize_default_providers(maps, env, inst) ==
    RegisterAll(maps, DefaultClients(env, inst))

\* list_providers: the keys of configs
list_providers == DOMAIN configs

---------------------------------------------------------------------------
(* ProviderRouter: mode detection *)

ProviderMode == {"Direct", "GhostLLM", "Auto"}

\* how the health probe of check_ghostllm_availability ends: with_config
\* returns Err, or health_check returns Ok(true), Ok(false) or Err within
\* health_check_timeout_ms, or the timeout elapses first
ProbeOutcomes == {"no_client", "true", "false", "error", "timeout"}

\* check_ghostllm_availability taking an elapsed timeout for an answer
check_ghostllm_availability_lenient(probe) ==
    CASE probe = "no_client" -> FALSE
      [] probe = "true" -> TRUE
      [] probe = "false" -> FALSE
      [] probe = "error" -> FALSE
      [] probe = "timeout" -> TRUE

check_ghostllm_availability(probe) ==
    CASE probe = "no_client" -> FALSE
      [] probe = "true" -> TRUE
      [] probe = "false" -> FALSE
      [] probe = "error" -> FALSE
      [] probe = "timeout" -> FALSE

detect_active_mode(mode, probe) ==
    CASE mode = "Direct" -> "Direct"
      [] mode = "GhostLLM" -> "GhostLLM"
      [] mode = "Auto" -> IF check_ghostllm_availability(probe)
                          THEN "GhostLLM" ELSE "Direct"

---------------------------------------------------------------------------
(* State *)

VARIABLES
    providers,        \* ProviderManager::providers: Provider -> adapter
    health,           \* ProviderManager::health: Provider -> ProviderHealth
    providers_lock,   \* the RwLock around providers: writer and readers
    tasks,            \* the callers: position and locals of each
    last,             \* what the step just taken returned to its caller
    router,           \* the ProviderRouter, once constructed
    attempts,         \* adapter calls made so far
    registrations,    \* register_provider calls made by callers so far
    stream,           \* the ChatStream under consideration and what it yielded
    approver,         \* the TerminalApprover: its rules and its two caches
    reply,            \* the request_approval call in progress or just answered
    manager,          \* the ActionManager: its callers, channel and background task
    todo,             \* the TaskManager: its list, its index and what its last operation returned
    copilot,          \* the CopilotClient: its cached token, the clock and its get_valid_token call
    gateway,          \* the last response of the HTTP gateway
    health_lock,      \* the RwLock of the health map and the update that holds it
    server            \* the WebSocket server: its connection table and handlers

vars == <<providers, health, providers_lock, tasks, last, router,
          attempts, registrations, stream, approver, reply,
          manager,
          todo,
          copilot,
          gateway,
          clock,
          health_lock,
          server>>

\* the state outside the registry and the router
outside_registry == <<stream, approver, reply, manager, todo,
      copilot, gateway, clock, health_lock, server>>

\* the state outside the streaming pipeline, the registry and the router
outside_stream == <<approver, reply, manager, todo, copilot,
      gateway, clock, health_lock, server>>

Tasks == 1..MaxTasks

\* the locals of a caller that is not inside any operation
IdleTask ==
    [pc |-> "idle", op |-> "none", list |-> <<>>, idx |-> 0,
     client |-> NoClient, attempted |-> <<>>, skipped |-> <<>>,
     failed |-> 0, err |-> "none"]

\* the step just taken was not the return of a call
NoReturn ==
    [op |-> "none", kind |-> "none", list |-> <<>>, attempted |-> <<>>,
     skipped |-> <<>>, failed |-> 0, err |-> "none", provider |-> "None",
     client |-> NoClient, error |-> "none", message |-> "", info |-> {},
     mode |-> "none", probe |-> "none", before |-> "none"]

\* a call with the locals `task` returns Ok: for a chat, the ChatResponse's
\* provider and the adapter that built it
Ok(task, provider, client) ==
    [NoReturn EXCEPT !.op = task.op, !.kind = "ok", !.list = task.list,
                     !.attempted = task.attempted, !.skipped = task.skipped,
                     !.failed = task.failed, !.err = task.err,
                     !.provider = provider, !.client = client]

\* a call with the locals `task` returns Err(kind(message))
Err(task, kind, message) ==
    [NoReturn EXCEPT !.op = task.op, !.kind = "err", !.list = task.list,
                     !.attempted = task.attempted, !.skipped = task.skipped,
                     !.failed = task.failed, !.err = task.err,
                     !.error = kind, !.message = message]

\* no ProviderRouter has been constructed
NoRouter ==
    [state |-> "none", mode |-> "Auto", active_mode |-> "Direct",
     ghostllm_client |-> NoClient, epoch |-> 0]

EmptyMap == [p \in {} |-> NoClient]

\* ProviderManager::new
Init ==
    /\ clock = 0
    /\ providers = EmptyMap
    /\ health = EmptyMap
    /\ providers_lock = [writer |-> 0, readers |-> {}]
    /\ tasks = [t \in Tasks |-> IdleTask]
    /\ last = NoReturn
    /\ router = NoRouter
    /\ attempts = 0
    /\ registrations = 0
    /\ stream = NoStream
    /\ approver = TerminalApprover_new
    /\ reply = NoReply
    /\ manager = ActionManager_new
    /\ todo = TaskManager_new
    /\ copilot = CopilotClient_new
    /\ gateway = NoResponse
    /\ health_lock = HealthLock_new
    /\ server = StreamServer_new

\* a new call is made by the first caller that is not inside one (callers
\* are interchangeable)
CanStart(t) ==
    /\ tasks[t].pc = "idle"
    /\ \A u \in Tasks : u < t => tasks[u].pc # "idle"

---------------------------------------------------------------------------
(* ProviderManager operations *)

\* register_provider inserting the adapter without holding the providers
\* write guard until the health row is inserted
RegisterInsertAdapter_unlocked(t, type) ==
    /\ CanStart(t)
    /\ registrations < MaxRegistrations
    /\ providers_lock.writer = 0 /\ providers_lock.readers = {}
    /\ LET client == Client(type, registrations + 1) IN
       /\ providers' = (get_provider(client) :> client) @@ providers
       /\ tasks' = [tasks EXCEPT ![t] =
                      [IdleTask EXCEPT !.pc = "reg_health", !.op = "register",
                                       !.client = client]]
    /\ registrations' = registrations + 1
    /\ last' = NoReturn
    /\ UNCHANGED <<health, providers_lock, router, attempts>>
    /\ UNCHANGED outside_registry

\* register_provider up to `self.health.write().await`: the providers write
\* guard is taken and the adapter inserted
RegisterInsertAdapter(t, type) ==
    /\ CanStart(t)
    /\ registrations < MaxRegistrations
    /\ providers_lock.writer = 0 /\ providers_lock.readers = {}
    /\ LET client == Client(type, registrations + 1) IN
       /\ providers' = (get_provider(client) :> client) @@ providers
       /\ tasks' = [tasks EXCEPT ![t] =
                      [IdleTask EXCEPT !.pc = "reg_health", !.op = "register",
                                       !.client = client]]
    /\ providers_lock' = [providers_lock EXCEPT !.writer = t]
    /\ registrations' = registrations + 1
    /\ last' = NoReturn
    /\ UNCHANGED <<health, router, attempts>>
    /\ UNCHANGED outside_registry

\* register_provider keeping a health row that is already there
RegisterInsertHealth_keep(t) ==
    /\ tasks[t].pc = "reg_health"
    /\ LET provider == get_provider(tasks[t].client) IN
       health' = health @@ (provider :> ProviderHealth_new(provider))
    /\ providers_lock' = [providers_lock EXCEPT !.writer = 0]
    /\ last' = Ok(tasks[t], "None", tasks[t].client)
    /\ tasks' = [tasks EXCEPT ![t] = IdleTask]
    /\ UNCHANGED <<providers, router, attempts, registrations>>
    /\ UNCHANGED outside_registry

\* register_provider from the health write guard to its return: the fresh
\* row is inserted and both guards are dropped
RegisterInsertHealth(t) ==
    /\ tasks[t].pc = "reg_health"
    /\ LET provider == get_provider(tasks[t].client) IN
       health' = (provider :> ProviderHealth_new(provider)) @@ health
    /\ providers_lock' = [providers_lock EXCEPT !.writer = 0]
    /\ last' = Ok(tasks[t], "None", tasks[t].client)
    /\ tasks' = [tasks EXCEPT ![t] = IdleTask]
    /\ UNCHANGED <<providers, router, attempts, registrations>>
    /\ UNCHANGED outside_registry

\* chat_completion, line 404: the selector is run for ChatCompletion
ManagerChatStart(t) ==
    \E scores \in {Scores(health)} :
       \E list \in {select_providers_with_fallback(order, "ChatCompletion",
                                                   scores) :
                       order \in ConfigOrders} :
          LET task == [IdleTask EXCEPT !.op = "chat", !.list = list] IN
          IF list = <<>>
          THEN /\ tasks' = [tasks EXCEPT ![t] = IdleTask]
               /\ last' = Err(task, "Provider",
                              "No providers available for capability")
          ELSE /\ tasks' = [tasks EXCEPT ![t] =
                              [task EXCEPT !.pc = "lookup", !.idx = 1]]
               /\ last' = NoReturn

\* the loop left at the first body that ends without a return
NextProvider_stop(t, task) ==
    /\ tasks' = [tasks EXCEPT ![t] = IdleTask]
    /\ last' = Err(task, "Provider", "All providers failed")

\* the loop body for list[idx] has ended without a return, leaving the
\* locals `task`: the loop goes on, or the list is exhausted
NextProvider(t, task) ==
    IF task.idx + 1 > Len(task.list)
    THEN /\ tasks' = [tasks EXCEPT ![t] = IdleTask]
         /\ last' = Err(task, "Provider", "All providers failed")
    ELSE /\ tasks' = [tasks EXCEPT ![t] =
                        [task EXCEPT !.idx = @ + 1, !.pc = "lookup",
                                     !.client = NoClient]]
         /\ last' = NoReturn

\* the dispatch loop giving a provider it passes over a health row marked
\* unhealthy
ChatLookup_marks_skipped(t) ==
    /\ tasks[t].pc = "lookup"
    /\ providers_lock.writer = 0
    /\ LET provider == tasks[t].list[tasks[t].idx] IN
       IF provider \in DOMAIN providers
       THEN /\ attempts < MaxAttempts
            /\ attempts' = attempts + 1
            /\ tasks' = [tasks EXCEPT
                            ![t].pc = "call",
                            ![t].client = providers[provider],
                            ![t].attempted = Append(@, provider)]
            /\ last' = NoReturn
            /\ health' = health
       ELSE /\ attempts' = attempts
            /\ NextProvider(t, [tasks[t] EXCEPT
                                  !.skipped = Append(@, provider)])
            /\ health' = (provider :>
                             [ProviderHealth_new(provider) EXCEPT
                                !.is_healthy = FALSE]) @@ health
    /\ UNCHANGED <<providers, providers_lock, router, registrations>>
    /\ UNCHANGED outside_registry

\* get_provider_client_ref for list[idx]: the adapter is called, or the
\* provider is passed over when no adapter is registered for it
ChatLookup(t) ==
    /\ tasks[t].pc = "lookup"
    /\ providers_lock.writer = 0
    /\ LET provider == tasks[t].list[tasks[t].idx] IN
       IF provider \in DOMAIN providers
       THEN /\ attempts < MaxAttempts
            /\ attempts' = attempts + 1
            /\ tasks' = [tasks EXCEPT
                            ![t].pc = "call",
                            ![t].client = providers[provider],
                            ![t].attempted = Append(@, provider)]
            /\ last' = NoReturn
       ELSE /\ attempts' = attempts
            /\ NextProvider(t, [tasks[t] EXCEPT
                                  !.skipped = Append(@, provider)])
    /\ UNCHANGED <<providers, health, providers_lock, router, registrations>>
    /\ UNCHANGED outside_registry

\* the adapter call returns, the response being labelled with the provider
\* selected first
ChatComplete_first_selected(t, outcome, duration) ==
    /\ tasks[t].pc = "call"
    /\ LET provider == tasks[t].list[tasks[t].idx] IN
       health' = update_health(health, provider, outcome = "ok", duration)
    /\ IF outcome = "ok"
       THEN /\ tasks' = [tasks EXCEPT ![t] = IdleTask]
            /\ last' = Ok(tasks[t], tasks[t].list[1], tasks[t].client)
       ELSE NextProvider(t, [tasks[t] EXCEPT !.err = outcome,
                                             !.failed = @ + 1])
    /\ UNCHANGED <<providers, providers_lock, router, attempts,
                   registrations>>
    /\ UNCHANGED outside_registry

\* the adapter call returns and its outcome is recorded in the row of the
\* provider selected first
ChatComplete_updates_first_listed(t, outcome, duration) ==
    /\ tasks[t].pc = "call"
    /\ health' = update_health(health, tasks[t].list[1], outcome = "ok",
                               duration)
    /\ IF outcome = "ok"
       THEN /\ tasks' = [tasks EXCEPT ![t] = IdleTask]
            /\ last' = Ok(tasks[t], response_provider(tasks[t].client),
                          tasks[t].client)
       ELSE NextProvider(t, [tasks[t] EXCEPT !.err = outcome,
                                             !.failed = @ + 1])
    /\ UNCHANGED <<providers, providers_lock, router, attempts,
                   registrations>>
    /\ UNCHANGED outside_registry

\* the adapter call returns; update_health; return Ok or go on
ChatComplete(t, outcome, duration) ==
    /\ tasks[t].pc = "call"
    /\ LET provider == tasks[t].list[tasks[t].idx] IN
       health' = update_health(health, provider, outcome = "ok", duration)
    /\ IF outcome = "ok"
       THEN /\ tasks' = [tasks EXCEPT ![t] = IdleTask]
            /\ last' = Ok(tasks[t], response_provider(tasks[t].client),
                          tasks[t].client)
       ELSE NextProvider(t, [tasks[t] EXCEPT !.err = outcome,
                                             !.failed = @ + 1])
    /\ UNCHANGED <<providers, providers_lock, router, attempts,
                   registrations>>
    /\ UNCHANGED outside_registry

\* list_provider_info up to `self.health.read().await`
ListProviderInfoStart(t) ==
    /\ CanStart(t)
    /\ providers_lock.writer = 0
    /\ providers_lock' = [providers_lock EXCEPT !.readers = @ \cup {t}]
    /\ tasks' = [tasks EXCEPT ![t] =
                   [IdleTask EXCEPT !.pc = "info_health", !.op = "list_info"]]
    /\ last' = NoReturn
    /\ UNCHANGED <<providers, health, router, attempts, registrations>>
    /\ UNCHANGED outside_registry

\* list_provider_info from the health read guard to its return
ListProviderInfoFinish(t) ==
    /\ tasks[t].pc = "info_health"
    /\ providers_lock' = [providers_lock EXCEPT !.readers = @ \ {t}]
    /\ last' = [Ok(tasks[t], "None", NoClient) EXCEPT
         !.info = {[name |-> p,
                    status |-> IF p \in DOMAIN health
                               THEN (IF health[p].is_healthy
                                     THEN "healthy" ELSE "unhealthy")
                               ELSE "unknown"] : p \in DOMAIN providers}]
    /\ tasks' = [tasks EXCEPT ![t] = IdleTask]
    /\ UNCHANGED <<providers, health, router, attempts, registrations>>
    /\ UNCHANGED outside_registry

\* chat_completion called on the registry by one of its callers
ManagerChat(t) ==
    /\ CanStart(t)
    /\ ManagerChatStart(t)
    /\ UNCHANGED <<providers, health, providers_lock, router, attempts,
                   registrations>>
    /\ UNCHANGED outside_registry

---------------------------------------------------------------------------
(* Specification of the registry used by its callers directly *)

Outcomes == {"ok"} \cup ErrorKinds

Next ==
    \/ \E t \in Tasks, type \in ClientTypes : RegisterInsertAdapter(t, type)
    \/ \E t \in Tasks : RegisterInsertHealth(t)
    \/ \E t \in Tasks : ManagerChat(t)
    \/ \E t \in Tasks : ChatLookup(t)
    \/ \E t \in Tasks, outcome \in Outcomes, duration \in Durations :
          ChatComplete(t, outcome, duration)
    \/ \E t \in Tasks : ListProviderInfoStart(t)
    \/ \E t \in Tasks : ListProviderInfoFinish(t)

Spec == Init /\ [][Next]_vars

---------------------------------------------------------------------------
(* Specification of update_health applied to one row *)

\* the registry after register_provider of one adapter
InitEma ==
    /\ clock = 0
    /\ \E type \in ClientTypes :
          LET maps == register_provider(
                         [providers |-> EmptyMap, health |-> EmptyMap],
                         Client(type, 1))
          IN  providers = maps.providers /\ health = maps.health
    /\ providers_lock = [writer |-> 0, readers |-> {}]
    /\ tasks = [t \in Tasks |-> IdleTask]
    /\ last = NoReturn
    /\ router = NoRouter
    /\ attempts = 0
    /\ registrations = 1
    /\ stream = NoStream
    /\ approver = TerminalApprover_new
    /\ reply = NoReply
    /\ manager = ActionManager_new
    /\ todo = TaskManager_new
    /\ copilot = CopilotClient_new
    /\ gateway = NoResponse
    /\ health_lock = HealthLock_new
    /\ server = StreamServer_new

\* update_health(provider, is_healthy, response_time), within MaxUpdates
\* calls on the row, or prolonging an unbroken run of failures
UpdateHealth(provider, is_healthy, response_time) ==
    /\ provider \in DOMAIN health
    /\ LET updates == health[provider].updates IN
       \/ Len(updates) < MaxUpdates
       \/ /\ Len(updates) < MaxStreak
          /\ ~is_healthy
          /\ \A i \in 1..Len(updates) : ~updates[i]
    /\ health' = update_health(health, provider, is_healthy, response_time)
    /\ UNCHANGED <<providers, providers_lock, tasks, last, router, attempts,
                   registrations>>
    /\ UNCHANGED outside_registry

NextEma ==
    \E provider \in Provider, is_healthy \in BOOLEAN,
       response_time \in Durations :
          UpdateHealth(provider, is_healthy, response_time)

SpecEma == InitEma /\ [][NextEma]_vars

---------------------------------------------------------------------------
(* ProviderRouter operations *)

\* the caller of the router
RouterTasks == {1}

AllIdle == \A t \in Tasks : tasks[t].pc = "idle"

\* initialize_ghostllm_mode registering the proxy adapter without keeping
\* it in ghostllm_client
initialize_ghostllm_mode_client_unset(r, maps, client_ok) ==
    IF ~client_ok
    THEN [ok |-> FALSE, router |-> r, maps |-> maps,
          error |-> "Config", message |-> "with_config failed"]
    ELSE LET client == Client("GhostLLMClient", r.epoch + 1) IN
         [ok |-> TRUE,
          router |-> [r EXCEPT !.epoch = @ + 1],
          maps |-> register_provider(maps, client),
          error |-> "none", message |-> ""]

\* initialize_ghostllm_mode on the router r and the registry maps;
\* client_ok: GhostLLMClient::with_config returns Ok
initialize_ghostllm_mode(r, maps, client_ok) ==
    IF ~client_ok
    THEN [ok |-> FALSE, router |-> r, maps |-> maps,
          error |-> "Config", message |-> "with_config failed"]
    ELSE LET client == Client("GhostLLMClient", r.epoch + 1) IN
         [ok |-> TRUE,
          router |-> [r EXCEPT !.ghostllm_client = client,
                               !.epoch = @ + 1],
          maps |-> register_provider(maps, client),
          error |-> "none", message |-> ""]

\* initialize_direct_mode
initialize_direct_mode(r, maps, env) ==
    LET registered == initialize_default_providers(maps, env, r.epoch + 1)
    IN  IF list_providers = {}
        THEN [ok |-> FALSE, router |-> [r EXCEPT !.epoch = @ + 1],
              maps |-> registered,
              error |-> "Provider",
              message |-> "No direct providers available"]
        ELSE [ok |-> TRUE, router |-> [r EXCEPT !.epoch = @ + 1],
              maps |-> registered, error |-> "none", message |-> ""]

\* ProviderRouter::initialize on a router whose active_mode is still the
\* Direct that new() wrote
initialize(r, maps, probe, client_ok, env) ==
    LET active == detect_active_mode(r.mode, probe)
        r1 == [r EXCEPT !.active_mode = active]
    IN  CASE active = "GhostLLM" -> initialize_ghostllm_mode(r1, maps,
                                                             client_ok)
          [] active = "Direct" -> initialize_direct_mode(r1, maps, env)
          [] active = "Auto" ->
               [ok |-> FALSE, router |-> r1, maps |-> maps,
                error |-> "Provider", message |-> "Auto mode not resolved"]

\* the inputs of a call that runs the probe (probes), builds the proxy
\* adapter (builds) or reads the environment (reads): the probe ends in
\* "no_client" exactly when with_config returns Err, and an input the call
\* does not consult is "none", TRUE or {}
InputsOf(probes, builds, reads, probe, client_ok, env) ==
    /\ probe \in (IF ~probes THEN {"none"}
                  ELSE IF client_ok THEN ProbeOutcomes \ {"no_client"}
                  ELSE {"no_client"})
    /\ (probes \/ builds) \/ client_ok
    /\ reads \/ env = {}

\* ProviderRouter::new(config) with config.mode = mode.  On Err the router
\* and its registry are dropped.
RouterNew(mode, probe, client_ok, env) ==
    /\ router.state = "none"
    /\ AllIdle
    /\ InputsOf(mode = "Auto", mode = "GhostLLM", mode # "GhostLLM",
                probe, client_ok, env)
    /\ LET r0 == [NoRouter EXCEPT !.mode = mode]
           res == initialize(r0, [providers |-> EmptyMap,
                                  health |-> EmptyMap],
                             probe, client_ok, env)
           call == [IdleTask EXCEPT !.op = "router_new"]
       IN  IF res.ok
           THEN /\ router' = [res.router EXCEPT !.state = "ready"]
                /\ providers' = res.maps.providers
                /\ health' = res.maps.health
                /\ last' = [Ok(call, "None", NoClient) EXCEPT
                              !.mode = mode, !.probe = probe]
           ELSE /\ router' = NoRouter
                /\ providers' = EmptyMap
                /\ health' = EmptyMap
                /\ last' = [Err(call, res.error, res.message) EXCEPT
                              !.mode = mode, !.probe = probe]
    /\ UNCHANGED <<providers_lock, tasks, attempts, registrations>>
    /\ UNCHANGED outside_registry

\* switch_mode writing active_mode before the mode is initialized
switch_mode_eager(r, maps, mode, probe, client_ok, env) ==
    CASE mode = "Auto" ->
           [ok |-> FALSE, router |-> r, maps |-> maps,
            error |-> "InvalidInput",
            message |-> "Cannot switch to Auto mode explicitly"]
      [] mode = "GhostLLM" ->
           LET r1 == [r EXCEPT !.active_mode = mode] IN
           IF ~check_ghostllm_availability(probe)
           THEN [ok |-> FALSE, router |-> r1, maps |-> maps,
                 error |-> "Provider", message |-> "GhostLLM not available"]
           ELSE initialize_ghostllm_mode(r1, maps, client_ok)
      [] mode = "Direct" ->
           initialize_direct_mode([r EXCEPT !.active_mode = mode], maps, env)

\* switch_mode(mode) on the router r and the registry maps
switch_mode(r, maps, mode, probe, client_ok, env) ==
    CASE mode = "Auto" ->
           [ok |-> FALSE, router |-> r, maps |-> maps,
            error |-> "InvalidInput",
            message |-> "Cannot switch to Auto mode explicitly"]
      [] mode = "GhostLLM" ->
           IF ~check_ghostllm_availability(probe)
           THEN [ok |-> FALSE, router |-> r, maps |-> maps,
                 error |-> "Provider", message |-> "GhostLLM not available"]
           ELSE LET res == initialize_ghostllm_mode(r, maps, client_ok) IN
                IF res.ok
                THEN [res EXCEPT !.router.active_mode = mode]
                ELSE res
      [] mode = "Direct" ->
           LET res == initialize_direct_mode(r, maps, env) IN
           IF res.ok
           THEN [res EXCEPT !.router.active_mode = mode]
           ELSE res

\* ProviderRouter::switch_mode; it takes &mut self, so no other call on the
\* router is in progress
RouterSwitchMode(mode, probe, client_ok, env) ==
    /\ router.state = "ready"
    /\ AllIdle
    /\ router.epoch <= MaxSwitches
    /\ InputsOf(mode = "GhostLLM", mode = "GhostLLM", mode = "Direct",
                probe, client_ok, env)
    /\ LET res == switch_mode(router, [providers |-> providers,
                                       health |-> health],
                              mode, probe, client_ok, env)
           call == [IdleTask EXCEPT !.op = "switch_mode"]
       IN  /\ router' = res.router
           /\ providers' = res.maps.providers
           /\ health' = res.maps.health
           /\ last' = [(IF res.ok THEN Ok(call, "None", NoClient)
                        ELSE Err(call, res.error, res.message)) EXCEPT
                         !.mode = mode, !.probe = probe,
                         !.before = router.active_mode]
    /\ UNCHANGED <<providers_lock, tasks, attempts, registrations>>
    /\ UNCHANGED outside_registry

\* ProviderRouter::list_available_providers
RouterListAvailableProviders(t) ==
    /\ router.state = "ready"
    /\ CanStart(t)
    /\ last' = [Ok([IdleTask EXCEPT !.op = "list_available_providers"],
                   "None", NoClient) EXCEPT
         !.mode = router.active_mode,
         !.info = CASE router.active_mode = "GhostLLM" ->
                         {[name |-> "GhostLLM", status |-> "listed"]}
                    [] router.active_mode = "Direct" ->
                         {[name |-> p, status |-> "listed"] :
                             p \in list_providers}
                    [] router.active_mode = "Auto" -> {}]
    /\ UNCHANGED <<providers, health, providers_lock, tasks, router,
                   attempts, registrations>>
    /\ UNCHANGED outside_registry

\* ProviderRouter::get_provider_status; is_healthy: what the proxy
\* adapter's health_check gives after unwrap_or(false)
RouterGetProviderStatus(t, is_healthy) ==
    /\ router.state = "ready"
    /\ CanStart(t)
    /\ router.active_mode = "GhostLLM" \/ is_healthy
    /\ last' = [Ok([IdleTask EXCEPT !.op = "get_provider_status"],
                   "None", NoClient) EXCEPT
         !.mode = router.active_mode,
         !.info = CASE router.active_mode = "GhostLLM" ->
                         {[name |-> "GhostLLM",
                           status |-> IF router.ghostllm_client # NoClient
                                         /\ is_healthy
                                      THEN "healthy" ELSE "unhealthy"]}
                    [] router.active_mode = "Direct" ->
                         {[name |-> p,
                           status |-> IF health[p].is_healthy
                                      THEN "healthy" ELSE "unhealthy"] :
                             p \in DOMAIN health}
                    [] router.active_mode = "Auto" -> {}]
    /\ UNCHANGED <<providers, health, providers_lock, tasks, router,
                   attempts, registrations>>
    /\ UNCHANGED outside_registry

\* ProviderRouter::chat_completion matching on the configured mode
\* instead of active_mode
RouterChat_by_config_mode(t) ==
    /\ router.state = "ready"
    /\ CanStart(t)
    /\ CASE router.mode = "GhostLLM" ->
              IF router.ghostllm_client # NoClient
              THEN /\ attempts < MaxAttempts
                   /\ attempts' = attempts + 1
                   /\ tasks' = [tasks EXCEPT ![t] =
                         [IdleTask EXCEPT !.pc = "proxy_call",
                                          !.op = "router_chat",
                                          !.client = router.ghostllm_client]]
                   /\ last' = NoReturn
              ELSE /\ attempts' = attempts
                   /\ tasks' = tasks
                   /\ last' = [Err([IdleTask EXCEPT !.op = "router_chat"],
                                   "Provider",
                                   "GhostLLM client not initialized")
                               EXCEPT !.mode = router.active_mode]
         [] router.mode = "Direct" ->
              /\ ManagerChatStart(t)
              /\ attempts' = attempts
         [] router.mode = "Auto" ->
              /\ attempts' = attempts
              /\ tasks' = tasks
              /\ last' = [Err([IdleTask EXCEPT !.op = "router_chat"],
                              "Provider", "Auto mode not resolved")
                          EXCEPT !.mode = router.active_mode]
    /\ UNCHANGED <<providers, health, providers_lock, router, registrations>>
    /\ UNCHANGED outside_registry

\* ProviderRouter::chat_completion up to the first await
RouterChat(t) ==
    /\ router.state = "ready"
    /\ CanStart(t)
    /\ CASE router.active_mode = "GhostLLM" ->
              IF router.ghostllm_client # NoClient
              THEN /\ attempts < MaxAttempts
                   /\ attempts' = attempts + 1
                   /\ tasks' = [tasks EXCEPT ![t] =
                         [IdleTask EXCEPT !.pc = "proxy_call",
                                          !.op = "router_chat",
                                          !.client = router.ghostllm_client]]
                   /\ last' = NoReturn
              ELSE /\ attempts' = attempts
                   /\ tasks' = tasks
                   /\ last' = [Err([IdleTask EXCEPT !.op = "router_chat"],
                                   "Provider",
                                   "GhostLLM client not initialized")
                               EXCEPT !.mode = router.active_mode]
         [] router.active_mode = "Direct" ->
              /\ ManagerChatStart(t)
              /\ attempts' = attempts
         [] router.active_mode = "Auto" ->
              /\ attempts' = attempts
              /\ tasks' = tasks
              /\ last' = [Err([IdleTask EXCEPT !.op = "router_chat"],
                              "Provider", "Auto mode not resolved")
                          EXCEPT !.mode = router.active_mode]
    /\ UNCHANGED <<providers, health, providers_lock, router, registrations>>
    /\ UNCHANGED outside_registry

\* the call of the ghostllm_client adapter returns: its result is the
\* router's result
RouterProxyComplete(t, outcome) ==
    /\ tasks[t].pc = "proxy_call"
    /\ last' = [(IF outcome = "ok"
                 THEN Ok(tasks[t], response_provider(tasks[t].client),
                         tasks[t].client)
                 ELSE Err(tasks[t], outcome, "adapter error")) EXCEPT
                  !.mode = router.active_mode]
    /\ tasks' = [tasks EXCEPT ![t] = IdleTask]
    /\ UNCHANGED <<providers, health, providers_lock, router, attempts,
                   registrations>>
    /\ UNCHANGED outside_registry

---------------------------------------------------------------------------
(* Specification of the registry used through a ProviderRouter *)

NextRouter ==
    \/ \E mode \in ProviderMode, client_ok \in BOOLEAN,
          probe \in ProbeOutcomes \cup {"none"}, env \in SUBSET EnvVars :
             RouterNew(mode, probe, client_ok, env)
    \/ \E mode \in ProviderMode, client_ok \in BOOLEAN,
          probe \in ProbeOutcomes \cup {"none"}, env \in SUBSET EnvVars :
             RouterSwitchMode(mode, probe, client_ok, env)
    \/ \E t \in RouterTasks : RouterChat(t)
    \/ \E t \in RouterTasks : ChatLookup(t)
    \/ \E t \in RouterTasks, outcome \in Outcomes, duration \in Durations :
          ChatComplete(t, outcome, duration)
    \/ \E t \in RouterTasks, outcome \in Outcomes :
          RouterProxyComplete(t, outcome)
    \/ \E t \in RouterTasks : RouterListAvailableProviders(t)
    \/ \E t \in RouterTasks, is_healthy \in BOOLEAN :
          RouterGetProviderStatus(t, is_healthy)

SpecRouter == Init /\ [][NextRouter]_vars


---------------------------------------------------------------------------
(* The streaming pipeline: one ChatStream from creation to its end *)

\* StreamManager::register_provider
StreamRegisterProvider(provider) ==
    /\ stream.flavor = "none"
    /\ Cardinality(stream.provider_clients) < MaxStreamClients
    /\ provider \notin stream.provider_clients
    /\ stream' = [stream EXCEPT !.provider_clients = @ \cup {provider}]
    /\ UNCHANGED <<providers, health, providers_lock, tasks, last, router,
                   attempts, registrations>>
    /\ UNCHANGED outside_stream

\* create_chat_stream: a real stream when an adapter is registered for the
\* provider, a simulated one otherwise.  The simulated response is built
\* before the stream is returned; the real adapter is called when the
\* stream is first polled.
CreateChatStream(provider) ==
    /\ stream.flavor = "none"
    /\ stream' =
         IF provider \in stream.provider_clients
         THEN [stream EXCEPT !.flavor = "real", !.pc = "call",
                             !.provider = provider, !.chunk_size = 2]
         ELSE [stream EXCEPT !.flavor = "simulated", !.pc = "loop",
                             !.provider = provider, !.chunk_size = 3,
                             !.response = "ok",
                             !.content = SimulatedContent(provider),
                             !.words =
                                split_whitespace(SimulatedContent(provider))]
    /\ UNCHANGED <<providers, health, providers_lock, tasks, last, router,
                   attempts, registrations>>
    /\ UNCHANGED outside_stream

\* the adapter's error is yielded and the final chunk sent after it
StreamResponse_error_then_final(outcome, content) ==
    /\ stream.pc = "call"
    /\ outcome = "ok" \/ content = <<>>
    /\ stream' =
         IF outcome = "ok"
         THEN [stream EXCEPT !.pc = "loop", !.response = outcome,
                             !.content = content,
                             !.words = split_whitespace(content)]
         ELSE [stream EXCEPT !.pc = "loop", !.response = outcome,
                             !.items = Append(@, StreamError(outcome))]
    /\ UNCHANGED <<providers, health, providers_lock, tasks, last, router,
                   attempts, registrations>>
    /\ UNCHANGED outside_stream

\* create_real_stream: client.chat_completion returns to the stream body.
\* Ok(response): the content is split into words.  Err(e): the stream
\* yields Err(e) and has nothing more to run.
StreamResponse(outcome, content) ==
    /\ stream.pc = "call"
    /\ outcome = "ok" \/ content = <<>>
    /\ stream' =
         IF outcome = "ok"
         THEN [stream EXCEPT !.pc = "loop", !.response = outcome,
                             !.content = content,
                             !.words = split_whitespace(content)]
         ELSE [stream EXCEPT !.pc = "end", !.response = outcome,
                             !.items = Append(@, StreamError(outcome))]
    /\ UNCHANGED <<providers, health, providers_lock, tasks, last, router,
                   attempts, registrations>>
    /\ UNCHANGED outside_stream

\* the loop yielding its last group of words with finished = true
StreamYieldChunk_marks_last ==
    /\ stream.pc = "loop"
    /\ stream.i < Len(chunks(stream.words, stream.chunk_size))
    /\ LET groups == chunks(stream.words, stream.chunk_size)
           delta == delta_of(stream.i, groups[stream.i + 1])
       IN  stream' = [stream EXCEPT
              !.i = @ + 1,
              !.items = Append(@, StreamedResponse(delta, stream.provider,
                                     stream.i + 1 = Len(groups)))]
    /\ UNCHANGED <<providers, health, providers_lock, tasks, last, router,
                   attempts, registrations>>
    /\ UNCHANGED outside_stream

\* one turn of `for (i, chunk) in words.chunks(chunk_size).enumerate()`:
\* the chunk is yielded when its delta is not empty
StreamYieldChunk ==
    /\ stream.pc = "loop"
    /\ stream.i < Len(chunks(stream.words, stream.chunk_size))
    /\ LET groups == chunks(stream.words, stream.chunk_size)
           delta == delta_of(stream.i, groups[stream.i + 1])
       IN  stream' = [stream EXCEPT
              !.i = @ + 1,
              !.items = IF join(groups[stream.i + 1], <<" ">>) # <<>>
                        THEN Append(@, StreamedResponse(delta,
                                          stream.provider, FALSE))
                        ELSE @]
    /\ UNCHANGED <<providers, health, providers_lock, tasks, last, router,
                   attempts, registrations>>
    /\ UNCHANGED outside_stream

\* the final chunk, after the loop
StreamYieldFinal ==
    /\ stream.pc = "loop"
    /\ stream.i = Len(chunks(stream.words, stream.chunk_size))
    /\ stream' = [stream EXCEPT
          !.pc = "end",
          !.items = Append(@, StreamedResponse(<<>>, stream.provider, TRUE))]
    /\ UNCHANGED <<providers, health, providers_lock, tasks, last, router,
                   attempts, registrations>>
    /\ UNCHANGED outside_stream

\* the stream body has run to its end: the next poll returns None
StreamEnd ==
    /\ stream.pc = "end"
    /\ stream' = [stream EXCEPT !.pc = "done"]
    /\ UNCHANGED <<providers, health, providers_lock, tasks, last, router,
                   attempts, registrations>>
    /\ UNCHANGED outside_stream

\* the consumer drops the stream at one of its suspension points
StreamDrop ==
    /\ stream.pc \in {"call", "loop", "end"}
    /\ stream' = [stream EXCEPT !.pc = "dropped"]
    /\ UNCHANGED <<providers, health, providers_lock, tasks, last, router,
                   attempts, registrations>>
    /\ UNCHANGED outside_stream

NextStream ==
    \/ \E provider \in Provider : StreamRegisterProvider(provider)
    \/ \E provider \in Provider : CreateChatStream(provider)
    \/ /\ stream.pc = "call"
       /\ \E outcome \in Outcomes, content \in Contents :
             StreamResponse(outcome, content)
    \/ StreamYieldChunk
    \/ StreamYieldFinal
    \/ StreamEnd
    \/ StreamDrop

SpecStream == Init /\ [][NextStream]_vars

---------------------------------------------------------------------------
(* The approval engine: one approver, its rules and the requests made *)

\* the state outside the approval engine
outside_approval ==
    <<providers, health, providers_lock, tasks, last, router, attempts,
      registrations, stream, manager, todo, copilot, gateway,
      clock, health_lock, server>>

\* ActionApprover::add_rule: rules.insert(rule.name, rule); a new name
\* takes any place in the order the map yields its values
AddRule(rule, place) ==
    /\ \A k \in 1..Len(approver.order) : approver.order[k] # rule.name
    /\ Len(approver.order) < MaxRules
    /\ place \in 0..Len(approver.order)
    /\ approver' =
         [approver EXCEPT !.order =
             SubSeq(@, 1, place) \o <<rule.name>>
               \o SubSeq(@, place + 1, Len(@))]
    /\ UNCHANGED reply
    /\ UNCHANGED outside_approval

\* ActionApprover::remove_rule: rules.remove(rule_name)
RemoveRule(rule_name) ==
    /\ \E k \in 1..Len(approver.order) : approver.order[k] = rule_name
    /\ approver' =
         [approver EXCEPT !.order = SelectSeq(@, LAMBDA n : n # rule_name)]
    /\ UNCHANGED reply
    /\ UNCHANGED outside_approval

\* ActionApprover::request_approval up to the prompt: a rule or a cached
\* approval answers the request, or the user is prompted
RequestApproval(request, current_hour) ==
    /\ reply.pc # "prompt"
    /\ \E decision \in {request_approval(approver, request, current_hour)} :
         reply' =
           IF decision = "Prompt"
           THEN [pc |-> "prompt", request |-> request,
                 hour |-> current_hour, status |-> "none",
                 prompted |-> TRUE, request_id |-> "none"]
           ELSE [pc |-> "done", request |-> request,
                 hour |-> current_hour, status |-> decision,
                 prompted |-> FALSE, request_id |-> request.id]
    /\ UNCHANGED approver
    /\ UNCHANGED outside_approval

\* request_approval from the return of prompt_user: the choice is stored
\* and returned
PromptReturns(status) ==
    /\ reply.pc = "prompt"
    /\ status \in {"AllowedSession", "AllowedProject"}
          => StoredCount(approver) < MaxStored
    /\ approver' = store_approval(approver, reply.request, status)
    /\ reply' = [reply EXCEPT !.pc = "done", !.status = status,
                              !.request_id = reply.request.id]
    /\ UNCHANGED outside_approval

NextApproval ==
    \/ \E rule \in ApprovalRules, place \in 0..MaxRules : AddRule(rule, place)
    \/ \E rule_name \in {rule.name : rule \in ApprovalRules} :
          RemoveRule(rule_name)
    \/ \E request \in ActionRequests, current_hour \in Hours :
          RequestApproval(request, current_hour)
    \/ \E status \in UserChoices : PromptReturns(status)

SpecApproval == Init /\ [][NextApproval]_vars

---------------------------------------------------------------------------
(* The ActionManager: callers, the request channel and the background task *)

\* the state outside the ActionManager and its approver
outside_manager ==
    <<providers, health, providers_lock, tasks, last, router, attempts,
      registrations, stream, reply, todo, copilot, gateway,
      clock, health_lock, server>>

\* the actions the callers of the manager ask approval for
ManagerActionTypes ==
    {CommandExecution(Command_rm_rf_x), CommandExecution(Command_ls)}

\* ActionManager::request_approval up to the storing of the reply channel:
\* the request gets a fresh id (the callers take their ids in turn) and its
\* oneshot sender is put in response_receivers
ManagerStoreReceiver(c, action_type, project_path) ==
    /\ manager.callers[c].pc = "idle"
    /\ \A b \in Callers : b < c => manager.callers[b].pc # "idle"
    /\ manager' =
         [manager EXCEPT
            !.callers[c] = [pc |-> "stored",
                            request |-> [id |-> c,
                                         action_type |-> action_type,
                                         project_path |-> project_path],
                            status |-> "none"],
            !.response_receivers = @ \cup {c}]
    /\ UNCHANGED approver
    /\ UNCHANGED outside_manager

\* ActionManager::request_approval: request_sender.send(request), after
\* which the caller awaits the reply
ManagerSend(c) ==
    /\ manager.callers[c].pc = "stored"
    /\ manager' =
         [manager EXCEPT
            !.callers[c].pc = "waiting",
            !.channel = Append(@, manager.callers[c].request),
            !.sent = Append(@, c)]
    /\ UNCHANGED approver
    /\ UNCHANGED outside_manager

\* the caller's future is dropped before it has its answer
ManagerCallerDropped(c) ==
    /\ manager.callers[c].pc \in {"stored", "waiting"}
    /\ manager' = [manager EXCEPT !.callers[c].pc = "dropped"]
    /\ UNCHANGED approver
    /\ UNCHANGED outside_manager

\* the background task taking a request off the channel while an earlier
\* one is still with the approver
ManagerRecv_without_waiting(current_hour) ==
    /\ manager.channel # <<>>
    /\ \E decision \in {request_approval(approver, Head(manager.channel),
                                         current_hour)} :
         manager' =
           [manager EXCEPT
              !.channel = Tail(@),
              !.received = Append(@, Head(manager.channel).id),
              !.in_approver = @ \cup
                 {[request |-> Head(manager.channel),
                   pc |-> IF decision = "Prompt" THEN "prompt" ELSE "respond",
                   status |-> decision]}]
    /\ UNCHANGED approver
    /\ UNCHANGED outside_manager

\* the background task: request_receiver.recv() returns the oldest request
\* and approver.request_approval runs up to the prompt
ManagerRecv(current_hour) ==
    /\ manager.in_approver = {}
    /\ manager.channel # <<>>
    /\ \E decision \in {request_approval(approver, Head(manager.channel),
                                         current_hour)} :
         manager' =
           [manager EXCEPT
              !.channel = Tail(@),
              !.received = Append(@, Head(manager.channel).id),
              !.in_approver = @ \cup
                 {[request |-> Head(manager.channel),
                   pc |-> IF decision = "Prompt" THEN "prompt" ELSE "respond",
                   status |-> decision]}]
    /\ UNCHANGED approver
    /\ UNCHANGED outside_manager

\* the background task: prompt_user returns, the choice is stored
ManagerPromptReturns(d, status) ==
    /\ d \in manager.in_approver
    /\ d.pc = "prompt"
    /\ status \in {"AllowedSession", "AllowedProject"}
          => StoredCount(approver) < MaxStored
    /\ approver' = store_approval(approver, d.request, status)
    /\ manager' =
         [manager EXCEPT
            !.in_approver = (@ \ {d}) \cup
               {[d EXCEPT !.pc = "respond", !.status = status]}]
    /\ UNCHANGED outside_manager

\* the background task dropping a Denied response instead of sending it
ManagerRespond_drops_denied(d) ==
    /\ d \in manager.in_approver
    /\ d.pc = "respond"
    /\ manager' =
         [manager EXCEPT
            !.response_receivers =
               IF d.status = "Denied" THEN @ ELSE @ \ {d.request.id},
            !.in_approver = @ \ {d},
            !.callers[d.request.id] =
               IF @.pc = "waiting" /\ d.status # "Denied"
               THEN [@ EXCEPT !.pc = "done", !.status = d.status]
               ELSE @]
    /\ UNCHANGED approver
    /\ UNCHANGED outside_manager

\* the background task: the reply channel is removed from
\* response_receivers and the response sent on it; a caller still waiting
\* returns Ok(response.status)
ManagerRespond(d) ==
    /\ d \in manager.in_approver
    /\ d.pc = "respond"
    /\ manager' =
         [manager EXCEPT
            !.response_receivers = @ \ {d.request.id},
            !.in_approver = @ \ {d},
            !.callers[d.request.id] =
               IF @.pc = "waiting"
               THEN [@ EXCEPT !.pc = "done", !.status = d.status]
               ELSE @]
    /\ UNCHANGED approver
    /\ UNCHANGED outside_manager

NextManager ==
    \/ \E c \in Callers, action_type \in ManagerActionTypes,
          project_path \in ProjectPaths :
          ManagerStoreReceiver(c, action_type, project_path)
    \/ \E c \in Callers : ManagerSend(c)
    \/ \E c \in Callers : ManagerCallerDropped(c)
    \/ \E current_hour \in Hours : ManagerRecv(current_hour)
    \/ \E d \in manager.in_approver, status \in UserChoices :
          ManagerPromptReturns(d, status)
    \/ \E d \in manager.in_approver : ManagerRespond(d)

SpecManager == Init /\ [][NextManager]_vars

---------------------------------------------------------------------------
(* The ActionManager under fair scheduling, with an approver that can fail *)

\* the background task: recv() returns the oldest request and
\* approver.request_approval returns Err; the response built in its place
\* carries the request's id and Denied
ManagerApproverFails ==
    /\ manager.in_approver = {}
    /\ manager.channel # <<>>
    /\ manager' =
         [manager EXCEPT
            !.channel = Tail(@),
            !.received = Append(@, Head(manager.channel).id),
            !.failed = @ \cup {Head(manager.channel).id},
            !.in_approver = @ \cup
               {[request |-> Head(manager.channel),
                 pc |-> "respond",
                 status |-> "Denied"]}]
    /\ UNCHANGED approver
    /\ UNCHANGED outside_manager

\* the requests of the fair specification: one project, any action
NextManagerFair ==
    \/ \E c \in Callers, action_type \in ManagerActionTypes :
          ManagerStoreReceiver(c, action_type, <<>>)
    \/ \E c \in Callers : ManagerSend(c)
    \/ \E c \in Callers : ManagerCallerDropped(c)
    \/ \E current_hour \in Hours : ManagerRecv(current_hour)
    \/ ManagerApproverFails
    \/ \E d \in manager.in_approver, status \in UserChoices :
          ManagerPromptReturns(d, status)
    \/ \E d \in manager.in_approver : ManagerRespond(d)

\* every task that can run does run: a caller that has stored its reply
\* channel sends its request, and the background task takes the next
\* request, gets the approver's answer and sends the response
ManagerFairness ==
    /\ \A c \in Callers : WF_vars(ManagerSend(c))
    /\ WF_vars(\/ \E current_hour \in Hours : ManagerRecv(current_hour)
               \/ ManagerApproverFails)
    /\ WF_vars(\E d \in manager.in_approver, status \in UserChoices :
                  ManagerPromptReturns(d, status))
    /\ WF_vars(\E d \in manager.in_approver : ManagerRespond(d))

SpecManagerFair == Init /\ [][NextManagerFair]_vars /\ ManagerFairness

---------------------------------------------------------------------------
(* The TaskManager's operations; each holds the list's write guard from
   its first statement to its return *)

\* the state outside the TaskManager
outside_todo ==
    <<providers, health, providers_lock, tasks, last, router, attempts,
      registrations, stream, approver, reply, manager, copilot,
      gateway, clock, health_lock, server>>

\* the ids of the tasks in the list
ListIds == {todo.list[k].id : k \in 1..Len(todo.list)}

\* the id of a new task (Uuid::new_v4) is not one in the list: the first
\* such id, ids being interchangeable
FreshId(id) ==
    /\ id \notin ListIds
    /\ \A other \in TaskIds \ ListIds :
          \E i, j \in 1..3 :
             /\ <<"t1", "t2", "t3">>[i] = id
             /\ <<"t1", "t2", "t3">>[j] = other
             /\ i <= j

\* TaskManager::add_task
TodoAddTask(task) ==
    /\ Len(todo.list) < MaxListLen
    /\ FreshId(task.id)
    /\ IF \E dep_id \in task.dependencies : dep_id \notin DOMAIN todo.task_index
       THEN todo' = [todo EXCEPT
                       !.ret = [op |-> "add_task", result |-> "Err",
                             error |-> "dependency not found"]]
       ELSE todo' = [todo EXCEPT
                       !.list = Append(@, task),
                       !.task_index = (task.id :> Len(todo.list)) @@ @,
                       !.ret = [op |-> "add_task", result |-> "Ok",
                             error |-> "none"]]
    /\ UNCHANGED outside_todo

\* TaskManager::update_task_status
TodoUpdateTaskStatus(task_id, status) ==
    /\ \E r \in {update_task_status(todo.list, task_id, status)} :
         todo' = [todo EXCEPT
                    !.list = r.list,
                    !.ret = [op |-> "update_task_status", result |-> r.result,
                             error |-> r.error]]
    /\ UNCHANGED outside_todo

\* TaskManager::remove_task
TodoRemoveTask(task_id) ==
    /\ IF position(todo.list, task_id) # 0
       THEN \E list \in {remove_at(todo.list, position(todo.list, task_id))} :
              todo' = [todo EXCEPT
                         !.list = list,
                         !.task_index = index_of(list),
                         !.ret = [op |-> "remove_task", result |-> "Ok",
                             error |-> "none"]]
       ELSE todo' = [todo EXCEPT
                       !.ret = [op |-> "remove_task", result |-> "Err",
                             error |-> "not found"]]
    /\ UNCHANGED outside_todo

\* TaskManager::set_task_list
TodoSetTaskList(new_list) ==
    /\ todo' = [todo EXCEPT
                  !.list = new_list,
                  !.task_index = index_of(new_list),
                  !.ret = [op |-> "set_task_list", result |-> "Ok",
                             error |-> "none"]]
    /\ UNCHANGED outside_todo

\* the lists handed to set_task_list: tasks t1, t2, .. in this order, of
\* any status, without dependencies
GivenLists ==
    {new_list \in UNION {[1..n -> Tasks_of(TaskIds, {})] : n \in 0..MaxGivenLen} :
        \A k \in 1..Len(new_list) :
            new_list[k].id = <<"t1", "t2", "t3">>[k]}

\* the tasks handed to add_task: of any status, with no dependency, one or
\* two
GivenTasks ==
    {task \in Tasks_of(TaskIds, TaskIds) :
        task.dependencies \in {{}, {"t1"}, {"t1", "t2"}}}

NextTodo ==
    \/ \E task \in GivenTasks : TodoAddTask(task)
    \/ \E task_id \in TaskIds, status \in TaskStatus :
          TodoUpdateTaskStatus(task_id, status)
    \/ \E task_id \in TaskIds : TodoRemoveTask(task_id)
    \/ \E new_list \in GivenLists : TodoSetTaskList(new_list)

SpecTodo == Init /\ [][NextTodo]_vars

---------------------------------------------------------------------------
(* get_valid_token of the Copilot adapter, its clock and its token *)

\* the state outside the Copilot adapter
outside_copilot ==
    <<providers, health, providers_lock, tasks, last, router, attempts,
      registrations, stream, approver, reply, manager, todo,
      gateway, clock, health_lock, server>>

\* a second passes
CopilotTick ==
    /\ copilot.now < StartTime + MaxTicks
    /\ copilot' = [copilot EXCEPT !.now = @ + 1]
    /\ UNCHANGED outside_copilot

\* CopilotClient::authenticate: poll_for_token returns a token, which
\* replaces the cached one
CopilotAuthenticate(expires_in, refresh_token) ==
    /\ copilot' =
         [copilot EXCEPT
            !.auth_token = <<AuthToken_new("access", expires_in,
                                           refresh_token, copilot.now)>>]
    /\ UNCHANGED outside_copilot

\* get_valid_token from the read of auth_token to the return of
\* is_expired
CopilotTokenStart ==
    /\ copilot.call.pc \in {"idle", "done"}
    /\ copilot' =
         [copilot EXCEPT !.call =
            IF copilot.auth_token = <<>>
            THEN [NoTokenCall EXCEPT
                    !.pc = "done", !.now = copilot.now,
                    !.result = "Err", !.value = "Auth: not authenticated"]
            ELSE IF is_expired(copilot.auth_token[1], copilot.now)
            THEN [NoTokenCall EXCEPT
                    !.pc = "done", !.now = copilot.now,
                    !.token = copilot.auth_token,
                    !.result = "Err", !.value = "Auth: token expired"]
            ELSE [NoTokenCall EXCEPT
                    !.pc = "needs_refresh", !.now = copilot.now,
                    !.token = copilot.auth_token]]
    /\ UNCHANGED outside_copilot

\* get_valid_token from needs_refresh, which reads the clock again, to the
\* refresh call or the return of the cached access token.  An overflowing
\* subtraction panics (overflow checks on) or wraps to a value above the
\* window (overflow checks off).
CopilotTokenNeedsRefresh(overflow_checks) ==
    /\ copilot.call.pc = "needs_refresh"
    /\ \E token \in {copilot.call.token[1]} :
       \E needs \in {needs_refresh(token, copilot.now)} :
         copilot' =
           [copilot EXCEPT !.call =
              IF needs = "overflow" /\ overflow_checks
              THEN [@ EXCEPT !.pc = "done", !.now_again = copilot.now,
                             !.result = "Panic",
                             !.value = "attempt to subtract with overflow"]
              ELSE IF needs = "true" /\ token.refresh_token # <<>>
              THEN [@ EXCEPT !.pc = "refreshing", !.now_again = copilot.now,
                             !.grants = @ + 1,
                             !.granted_with = token.refresh_token]
              ELSE [@ EXCEPT !.pc = "done", !.now_again = copilot.now,
                             !.result = "Ok",
                             !.value = token.access_token]]
    /\ UNCHANGED outside_copilot

\* get_valid_token from the return of auth_provider.refresh_token to its
\* own return
CopilotRefreshReturns(outcome, expires_in, refresh_token) ==
    /\ copilot.call.pc = "refreshing"
    /\ outcome = "Err" => expires_in = <<>> /\ refresh_token = <<>>
    /\ copilot' =
         IF outcome = "Ok"
         THEN [copilot EXCEPT
                 !.auth_token = <<AuthToken_new("refreshed", expires_in,
                                                refresh_token, copilot.now)>>,
                 !.call = [@ EXCEPT !.pc = "done", !.grant = "Ok",
                                    !.result = "Ok", !.value = "refreshed"]]
         ELSE [copilot EXCEPT
                 !.call = [@ EXCEPT !.pc = "done", !.grant = "Err",
                                    !.result = "Err",
                                    !.value = "Auth: token refresh failed"]]
    /\ UNCHANGED outside_copilot

NextCopilot ==
    \/ CopilotTick
    \/ \E expires_in \in ExpiresIn, refresh_token \in RefreshTokens :
          CopilotAuthenticate(expires_in, refresh_token)
    \/ CopilotTokenStart
    \/ \E overflow_checks \in BOOLEAN :
          CopilotTokenNeedsRefresh(overflow_checks)
    \/ \E outcome \in {"Ok", "Err"}, expires_in \in ExpiresIn,
          refresh_token \in RefreshTokens :
          CopilotRefreshReturns(outcome, expires_in, refresh_token)

SpecCopilot == Init /\ [][NextCopilot]_vars

---------------------------------------------------------------------------
(* Specification of the HTTP gateway over the registry *)

outside_gateway ==
    <<providers, health, providers_lock, tasks, last, router, attempts,
      registrations, stream, approver, reply, manager, todo, copilot,
      clock, health_lock, server>>

\* a handler receives the result of provider_manager.chat_completion and
\* answers the HTTP request
GatewayRespond(handler) ==
    /\ last.op = "chat"
    /\ last.kind \in {"ok", "err"}
    /\ gateway' = IF handler = "chat_handler"
                  THEN chat_handler(last)
                  ELSE claude_messages_handler(last)
    /\ UNCHANGED outside_gateway

NextGateway ==
    \/ Next
    \/ \E handler \in GatewayHandlers : GatewayRespond(handler)

SpecGateway == Init /\ [][NextGateway]_vars

---------------------------------------------------------------------------
(* Specification of the registry used by one caller while time passes *)

outside_clock ==
    <<providers, health, providers_lock, tasks, last, router, attempts,
      registrations, stream, approver, reply, manager, todo, copilot,
      gateway, health_lock, server>>

\* time passes
ClockTick ==
    /\ clock < MaxInstant
    /\ clock' = clock + 1
    /\ UNCHANGED outside_clock

\* the caller of the registry
ClockTasks == {1}

NextClock ==
    \/ ClockTick
    \/ \E t \in ClockTasks, type \in ClientTypes :
          RegisterInsertAdapter(t, type)
    \/ \E t \in ClockTasks : RegisterInsertHealth(t)
    \/ \E t \in ClockTasks : ManagerChat(t)
    \/ \E t \in ClockTasks : ChatLookup(t)
    \/ \E t \in ClockTasks, outcome \in Outcomes, duration \in Durations :
          ChatComplete(t, outcome, duration)

SpecClock == Init /\ [][NextClock]_vars

---------------------------------------------------------------------------
(* Specification of update_health and the readers of the health map *)

\* the state outside the health map and its lock
outside_health_lock ==
    <<providers, providers_lock, tasks, last, router, attempts,
      registrations, stream, approver, reply, manager, todo, copilot,
      gateway, clock, server>>

\* update_health, which chat_completion calls for a provider whose adapter
\* it found, up to the return of `self.health.write().await`
HealthWriteLock(t, provider, is_healthy, response_time) ==
    /\ health_lock.writer = 0
    /\ health_lock.readers = {}
    /\ health_lock.serial < MaxWrites
    /\ health_lock' =
         [health_lock EXCEPT
            !.writer = t,
            !.serial = @ + 1,
            !.job = [provider |-> provider, is_healthy |-> is_healthy,
                     response_time |-> response_time, written |-> 0]]
    /\ UNCHANGED health
    /\ UNCHANGED outside_health_lock

\* update_health: the next of its four assignments to the row
HealthWriteField ==
    /\ health_lock.writer # 0
    /\ health_lock.job.provider \in DOMAIN health
    /\ health_lock.job.written < 4
    /\ \E job \in {health_lock.job} :
       \E field \in {HealthFields[job.written + 1]} :
         /\ health' =
              [health EXCEPT ![job.provider] =
                 CASE field = "is_healthy" ->
                        [@ EXCEPT !.is_healthy = job.is_healthy]
                   [] field = "last_check" ->
                        [@ EXCEPT !.last_check = clock]
                   [] field = "response_time" ->
                        [@ EXCEPT !.response_time = job.response_time]
                   [] field = "error_rate" ->
                        [@ EXCEPT
                           !.error_rate =
                              F32Add(F32Mul(@, F32_0_9),
                                     F32Mul(IF job.is_healthy
                                            THEN F32Zero ELSE F32One,
                                            F32_0_1)),
                           !.updates = Append(@, job.is_healthy)]]
         /\ health_lock' =
              [health_lock EXCEPT
                 !.job.written = @ + 1,
                 !.stamps[job.provider][field] = health_lock.serial]
    /\ UNCHANGED outside_health_lock

\* update_health returns: the write guard is dropped
HealthWriteUnlock ==
    /\ health_lock.writer # 0
    /\ health_lock.job.written = 4
    /\ health_lock' = [health_lock EXCEPT !.writer = 0, !.job = NoJob]
    /\ UNCHANGED health
    /\ UNCHANGED outside_health_lock

\* a read guard handed out while update_health holds the write guard
HealthReadLock_without_waiting(t, provider) ==
    /\ t \notin health_lock.readers
    /\ t # health_lock.writer
    /\ health_lock' =
         [health_lock EXCEPT
            !.readers = @ \cup {t},
            !.seen[t] = [NoSeen EXCEPT !.provider = provider]]
    /\ UNCHANGED health
    /\ UNCHANGED outside_health_lock

\* get_provider_status up to the return of `self.health.read().await`,
\* for one of the rows it goes through
HealthReadLock(t, provider) ==
    /\ health_lock.writer = 0
    /\ t \notin health_lock.readers
    /\ health_lock' =
         [health_lock EXCEPT
            !.readers = @ \cup {t},
            !.seen[t] = [NoSeen EXCEPT !.provider = provider]]
    /\ UNCHANGED health
    /\ UNCHANGED outside_health_lock

\* get_provider_status: h.clone() copies the next field of the row
HealthReadField(t) ==
    /\ t \in health_lock.readers
    /\ health_lock.seen[t].read < 4
    /\ \E seen \in {health_lock.seen[t]} :
       \E field \in {HealthFields[seen.read + 1]} :
         health_lock' =
           [health_lock EXCEPT
              !.seen[t] =
                 [seen EXCEPT
                    !.read = @ + 1,
                    !.row = With(@, field, health[seen.provider][field]),
                    !.stamps =
                       With(@, field,
                            health_lock.stamps[seen.provider][field])]]
    /\ UNCHANGED health
    /\ UNCHANGED outside_health_lock

\* get_provider_status returns: the read guard is dropped
HealthReadUnlock(t) ==
    /\ t \in health_lock.readers
    /\ health_lock.seen[t].read = 4
    /\ health_lock' = [health_lock EXCEPT !.readers = @ \ {t}]
    /\ UNCHANGED health
    /\ UNCHANGED outside_health_lock

NextHealthLock ==
    \/ ClockTick
    \/ \E t \in HealthLockTasks, provider \in DOMAIN providers,
          is_healthy \in BOOLEAN, response_time \in Durations :
          HealthWriteLock(t, provider, is_healthy, response_time)
    \/ HealthWriteField
    \/ HealthWriteUnlock
    \/ \E t \in HealthLockTasks, provider \in DOMAIN health :
          HealthReadLock(t, provider)
    \/ \E t \in HealthLockTasks : HealthReadField(t)
    \/ \E t \in HealthLockTasks : HealthReadUnlock(t)

SpecHealthLock == InitEma /\ [][NextHealthLock]_vars

---------------------------------------------------------------------------
(* Specification of the WebSocket server *)

\* the state outside the WebSocket server
outside_server ==
    <<providers, health, providers_lock, tasks, last, router, attempts,
      registrations, stream, approver, reply, manager, todo, copilot,
      gateway, clock, health_lock>>

\* StreamServer::start: accept returns a connection and its handler is
\* spawned
WsAccept(c) ==
    /\ server.handlers[c].pc = "idle"
    /\ server' = [server EXCEPT !.handlers[c].pc = "handshake"]
    /\ UNCHANGED outside_server

\* handle_connection from accept_async to the Uuid; a failed handshake
\* returns Err.  Uuid::new_v4 hands out an id it has not handed out before
WsHandshake(c, ok, uuid) ==
    /\ server.handlers[c].pc = "handshake"
    /\ uuid \notin server.issued
    /\ server' =
         IF ok
         THEN [server EXCEPT !.handlers[c].pc = "insert",
                             !.handlers[c].connection_id = uuid,
                             !.issued = @ \cup {uuid}]
         ELSE [server EXCEPT !.handlers[c].pc = "returned",
                             !.handlers[c].result = "Err"]
    /\ UNCHANGED outside_server

\* handle_connection: conn_map.insert(connection_id, connection)
WsInsert(c) ==
    /\ server.handlers[c].pc = "insert"
    /\ \E id \in {server.handlers[c].connection_id} :
         server' =
           [server EXCEPT
              !.handlers[c].pc = "messages",
              !.connections =
                 With(@, id, [id |-> id, auth_token |-> <<>>,
                              connected_at |-> clock])]
    /\ UNCHANGED outside_server

\* handle_messages leaving its loop at a read error without returning to
\* the clean-up of handle_connection
WsFrame_returns_at_error(c, frame, send_ok) ==
    /\ server.handlers[c].pc = "messages"
    /\ \E h \in {handle_messages(frame, send_ok)} :
         server' =
           [server EXCEPT
              !.handlers[c] =
                 [@ EXCEPT !.frame = frame, !.sent = h.sent,
                           !.send_ok = h.sent # NoFrame /\ send_ok,
                           !.result = IF frame.kind = "Err" THEN "Err" ELSE @,
                           !.pc = IF frame.kind = "Err" THEN "returned"
                                  ELSE IF h.left THEN "remove"
                                  ELSE "messages"]]
    /\ UNCHANGED outside_server

\* handle_messages: one item of ws_stream.next()
WsFrame(c, frame, send_ok) ==
    /\ server.handlers[c].pc = "messages"
    /\ \E h \in {handle_messages(frame, send_ok)} :
         server' =
           [server EXCEPT
              !.handlers[c] =
                 [@ EXCEPT !.frame = frame, !.sent = h.sent,
                           !.send_ok = h.sent # NoFrame /\ send_ok,
                           !.pc = IF h.left THEN "remove" ELSE "messages"]]
    /\ UNCHANGED outside_server

\* handle_connection: conn_map.remove(&connection_id) and the return of
\* the Ok(()) of handle_messages
WsRemove(c) ==
    /\ server.handlers[c].pc = "remove"
    /\ server' =
         [server EXCEPT
            !.handlers[c].pc = "returned",
            !.handlers[c].result = "Ok",
            !.connections =
               [id \in DOMAIN @ \ {server.handlers[c].connection_id} |->
                  @[id]]]
    /\ UNCHANGED outside_server

NextServer ==
    \/ ClockTick
    \/ \E c \in Conns : WsAccept(c)
    \/ \E c \in Conns, ok \in BOOLEAN, uuid \in Uuids :
          WsHandshake(c, ok, uuid)
    \/ \E c \in Conns : WsInsert(c)
    \/ \E c \in Conns, frame \in Frames, send_ok \in BOOLEAN :
          WsFrame(c, frame, send_ok)
    \/ \E c \in Conns : WsRemove(c)

SpecServer == Init /\ [][NextServer]_vars

---------------------------------------------------------------------------
(* Decimal arithmetic for the laws that compare an error_rate with a power *)
(* of 0.9                                                                  *)

\* 9 * ls + carry for a number written in limbs of four decimal digits,
\* least significant limb first
RECURSIVE TimesNine(_, _)
TimesNine(ls, carry) ==
    IF ls = <<>> THEN (IF carry = 0 THEN <<>> ELSE <<carry>>)
    ELSE LET v == 9 * Head(ls) + carry IN
         <<v % 10000>> \o TimesNine(Tail(ls), v \div 10000)

\* a table <<9^1, ..., 9^n>> prolonged by the next power, by four and by
\* sixteen powers
Ext(t) == Append(t, TimesNine(t[Len(t)], 0))
Ext4(t) == Ext(Ext(Ext(Ext(t))))
Ext16(t) == Ext4(Ext4(Ext4(Ext4(t))))

RECURSIVE ExtTo(_, _)
ExtTo(t, n) ==
    IF Len(t) >= n THEN t
    ELSE IF Len(t) + 16 <= n THEN ExtTo(Ext16(t), n)
    ELSE ExtTo(Ext(t), n)

\* <<9^1, ..., 9^(MaxStreak + 1)>>
NinePowers == ExtTo(<< <<9>> >>, MaxStreak + 1)

\* the j-th digit after the point of 0.9^n = 9^n / 10^n
PowDigit(n, j) ==
    LET ls == NinePowers[n]
        i == n - j
        limb == (i \div 4) + 1
    IN  IF i >= 0 /\ limb <= Len(ls)
        THEN (ls[limb] \div (10 ^ (i % 4))) % 10
        ELSE 0

\* 0.9^n >= r / 2^k, compared digit by digit from the j-th digit on, the
\* digits before it being equal; 0 <= r < 2^k and k <= 27
RECURSIVE PowGeFrom(_, _, _, _)
PowGeFrom(n, j, r, k) ==
    IF r = 0 THEN TRUE
    ELSE IF j > n THEN FALSE
    ELSE LET b == (10 * r) \div Pow2(k)
             a == PowDigit(n, j)
         IN  IF a > b THEN TRUE
             ELSE IF a < b THEN FALSE
             ELSE PowGeFrom(n, j + 1, (10 * r) % Pow2(k), k)

\* e <= 0.9^n for a finite f32 e.  An e below 2^-4 is not compared
\* exactly: it is accepted when 2^-4 <= 0.9^n, and rejected otherwise.
AtMostPow(e, n) ==
    /\ e.c = "fin"
    /\ \/ e.m = 0
       \/ /\ e.x <= -24 /\ e.x >= -27
          /\ PowGeFrom(n, 1, e.m, -e.x)
       \/ /\ e.x < -27
          /\ PowGeFrom(n, 1, 1, 4)

\* e + slack >= 1 - 0.9^n for a finite f32 e and n >= 1, where slack is 0
\* or 2^-22.  An e below 2^-4 is below 1 - 0.9^n - 2^-22 for every n >= 1.
AtLeastOneMinusPow(e, n, slack) ==
    /\ e.c = "fin"
    /\ e.m # 0
    /\ e.x >= -27
    /\ \/ e.x >= -23
       \/ LET k == -e.x
              r == Pow2(k) - e.m - (IF slack THEN Pow2(k - 22) ELSE 0)
          IN  r <= 0 \/ PowGeFrom(n, 1, r, k)

AllSuccesses(updates) == \A i \in 1..Len(updates) : updates[i]
AllFailures(updates) == \A i \in 1..Len(updates) : ~updates[i]

\* C7 (as amended): on every row that has only seen n >= 1 successes since
\* it was created with error_rate 0, error_rate <= 0.9^n; on every row that
\* has only seen n >= 1 failures, error_rate >= 1 - 0.9^n - 2^-22, the
\* bound 1 - 0.9^n being met up to the rounding of binary32.
C7_EmaLawWithinRounding ==
    \A p \in DOMAIN health :
       LET row == health[p]
           n == Len(row.updates)
       IN  n >= 1 =>
             /\ AllSuccesses(row.updates) => AtMostPow(row.error_rate, n)
             /\ AllFailures(row.updates) =>
                   AtLeastOneMinusPow(row.error_rate, n, TRUE)

\* C7 (as stated): after n consecutive successes error_rate <= 0.9^n, and
\* after n consecutive failures error_rate >= 1 - 0.9^n.
C7_EmaLaw ==
    \A p \in DOMAIN health :
       LET row == health[p]
           n == Len(row.updates)
       IN  n >= 1 =>
             /\ AllSuccesses(row.updates) => AtMostPow(row.error_rate, n)
             /\ AllFailures(row.updates) =>
                   AtLeastOneMinusPow(row.error_rate, n, FALSE)

\* C7 witness: a row after MaxUpdates consecutive failures whose error_rate
\* is below 1 - 0.9^n and within 2^-22 of it.
C7_Witness ==
    \E p \in DOMAIN health :
       LET row == health[p]
           n == Len(row.updates)
       IN  /\ n = MaxUpdates
           /\ AllFailures(row.updates)
           /\ ~AtLeastOneMinusPow(row.error_rate, n, FALSE)
           /\ AtLeastOneMinusPow(row.error_rate, n, TRUE)

---------------------------------------------------------------------------
(* The selector *)

\* the providers whose capability set contains the capability
Listing(capability) ==
    {p \in Provider : capability \in configs[p].capabilities}

\* C3: for every capability C, if a registered provider lists C then
\* select_providers_with_fallback(C) returns, whatever the iteration order
\* of configs, a non-empty list whose first element lists C.
C3_SelectorTotality ==
    \A scores \in {Scores(health)} :
       \A capability \in Capability :
          (DOMAIN providers \cap Listing(capability) # {}) =>
             \A order \in ConfigOrders :
                \A list \in {select_providers_with_fallback(
                                 order, capability, scores)} :
                   list # <<>> /\ list[1] \in Listing(capability)

\* C3 witness: the only provider listing some capability is registered, has
\* failed MaxStreak times in a row, and is still what the selector returns
\* for that capability.
C3_Witness ==
    \E p \in DOMAIN providers, capability \in Capability :
       /\ Listing(capability) = {p}
       /\ Len(health[p].updates) = MaxStreak
       /\ AllFailures(health[p].updates)
       /\ select_providers_with_fallback(InsertionOrder, capability,
                                         Scores(health)) = <<p>>

\* the score of the specification: priority x (healthy ? 1 : 0.1) x
\* (response_time > 0 ? 1000 / response_time_ms : 1) x (1 - error_rate),
\* a provider without a health row counting as healthy, with no response
\* time and no errors
SpecScore(p) ==
    LET healthy == IF p \in DOMAIN health THEN health[p].is_healthy ELSE TRUE
        response_time == IF p \in DOMAIN health
                         THEN health[p].response_time ELSE 0
        error_rate == IF p \in DOMAIN health
                      THEN health[p].error_rate ELSE F32Zero
        f1 == IF healthy THEN F32One ELSE F32_0_1
        f2 == IF response_time > 0
              THEN F32DivInt(1000, response_time \div 1000) ELSE F32One
        f3 == F32Sub(F32One, error_rate)
    IN  F32Mul(F32Mul(F32Mul(F32FromInt(configs[p].priority), f1), f2), f3)

\* the position of provider p in the sequence s (0 when absent)
PositionIn(s, p) ==
    IF \E i \in 1..Len(s) : s[i] = p
    THEN CHOOSE i \in 1..Len(s) : s[i] = p
    ELSE 0

---------------------------------------------------------------------------
(* The dispatch loop *)

Range(s) == {s[i] : i \in 1..Len(s)}

\* the locals of caller t after the step: those it returned with when the
\* step was its return
After(t) == IF tasks'[t].pc = "idle" THEN last' ELSE tasks'[t]

\* what a chat_completion returns, against the list it worked through
C1_Returns ==
    last.op = "chat" =>
       \A n \in {Len(last.attempted) + Len(last.skipped)} :
          /\ n <= Len(last.list)
          /\ last.attempted =
                SelectSeq(SubSeq(last.list, 1, n),
                          LAMBDA p : p \notin Range(last.skipped))
          /\ last.skipped =
                SelectSeq(SubSeq(last.list, 1, n),
                          LAMBDA p : p \notin Range(last.attempted))
          /\ last.kind = "ok" =>
                /\ last.attempted # <<>>
                /\ last.attempted[Len(last.attempted)] = last.list[n]
                /\ get_provider(last.client) = last.list[n]
                /\ last.failed = Len(last.attempted) - 1
          /\ last.kind = "err" =>
                /\ last.error = "Provider"
                /\ last.message = "All providers failed"
                /\ n = Len(last.list)
                /\ last.failed = Len(last.attempted)

\* a step of the loop at list[idx]: the provider is attempted when an
\* adapter is registered for it and passed over when none is
C1_Step ==
    \A t \in Tasks :
       (tasks[t].pc = "lookup" /\ tasks'[t] # tasks[t]) =>
          \A p \in {tasks[t].list[tasks[t].idx]} :
             \/ /\ p \in DOMAIN providers
                /\ After(t).attempted = Append(tasks[t].attempted, p)
                /\ After(t).skipped = tasks[t].skipped
             \/ /\ p \notin DOMAIN providers
                /\ After(t).attempted = tasks[t].attempted
                /\ After(t).skipped = Append(tasks[t].skipped, p)

\* C1 (as amended): chat_completion works through the selector's list in
\* list order, attempting each provider that has a registered adapter when
\* its turn comes and passing over the others; it returns the response of
\* the first attempt that succeeds, every earlier attempt having failed and
\* nothing after it being attempted; and it returns "All providers failed"
\* only after the whole list was worked through and every attempt failed.
C1_FirstSuccessInListOrder == []C1_Returns /\ [][C1_Step]_vars

\* C1 (as stated): "all providers failed" is returned only after every
\* provider in the list has been attempted and has failed.
C1_EveryProviderAttempted ==
    (last.op = "chat" /\ last.kind = "err") =>
       /\ last.attempted = last.list
       /\ last.failed = Len(last.list)

\* C1 witness: a chat_completion returns "All providers failed" after two
\* failed attempts, one provider of its list having been passed over.
C1_Witness ==
    /\ last.op = "chat"
    /\ last.kind = "err"
    /\ last.message = "All providers failed"
    /\ last.failed = 2
    /\ Len(last.skipped) = 1

\* C2 (as stated): no adapter is called by a caller whose previous attempt
\* ended with an error that is not of a retryable kind, and such an error
\* is what the call returns.
C2_OnlyRetryableKindsFallBack ==
    /\ \A t \in Tasks :
          tasks[t].pc = "call" =>
             (tasks[t].err = "none" \/ is_retryable(tasks[t].err))
    /\ (last.op = "chat" /\ last.kind = "err" /\ last.err # "none"
          /\ ~is_retryable(last.err)) => last.error = last.err

---------------------------------------------------------------------------
(* Registration *)

C9_Step ==
    \A t \in Tasks :
       (tasks[t].pc = "reg_health" /\ tasks'[t].pc = "idle") =>
          \A c \in {tasks[t].client} :
             \A P \in {get_provider(c)} :
                /\ P \in DOMAIN providers'
                /\ providers'[P] = c
                /\ P \in DOMAIN health'
                /\ health'[P].is_healthy = TRUE
                /\ health'[P].response_time = 0
                /\ health'[P].error_rate = F32Zero

\* C9: when register_provider(c) returns, the adapter registered for c's
\* provider P is c, and P's health row is fresh: is_healthy = true,
\* response time zero, error rate zero.
C9_RegisterReplaces == [][C9_Step]_vars

\* C9 witness: a second register_provider for the same provider has
\* returned, and the provider's adapter is the second one.
C9_Witness ==
    /\ last.op = "register"
    /\ registrations = 2
    /\ Cardinality(DOMAIN providers) = 1
    /\ last.client.inst = 2
    /\ providers[get_provider(last.client)] = last.client

---------------------------------------------------------------------------
(* The router *)

\* C6: the provider field of every ChatResponse returned, by the registry
\* after any number of failed attempts or by the proxy adapter in GhostLLM
\* mode, is the provider of the adapter whose call produced it; for the
\* registry this is the provider attempted last.
C6_ProviderIsServingAdapter ==
    (last.kind = "ok" /\ last.op \in {"chat", "router_chat"}) =>
       /\ last.provider = get_provider(last.client)
       /\ last.op = "chat" =>
             last.provider = last.attempted[Len(last.attempted)]
       /\ last.op = "router_chat" => last.client = router.ghostllm_client

\* C6 witness: in Direct mode a response is returned after a failed
\* attempt, and its provider is not the one selected first.
C6_Witness ==
    /\ router.state = "ready"
    /\ router.active_mode = "Direct"
    /\ last.op = "chat"
    /\ last.kind = "ok"
    /\ last.failed >= 1
    /\ last.provider # last.list[1]

\* C10: a router constructed with mode Auto has active mode GhostLLM when
\* the probe returned true within the timeout and Direct when it returned
\* false, returned an error, timed out or could not be started; the active
\* mode of a constructed router is never Auto.
C10_AutoResolves ==
    /\ router.state = "ready" => router.active_mode \in {"GhostLLM", "Direct"}
    /\ (last.op = "router_new" /\ last.kind = "ok" /\ last.mode = "Auto") =>
          router.active_mode =
             (IF last.probe = "true" THEN "GhostLLM" ELSE "Direct")

\* C10 witness: a router configured Auto whose probe timed out has been
\* constructed in Direct mode.
C10_Witness ==
    /\ last.op = "router_new"
    /\ last.kind = "ok"
    /\ last.mode = "Auto"
    /\ last.probe = "timeout"
    /\ router.state = "ready"
    /\ router.active_mode = "Direct"

---------------------------------------------------------------------------
(* The router: switch_mode and routing *)

\* what a switch_mode that has just returned answered
C11_Returns ==
    last.op = "switch_mode" =>
       /\ last.mode = "Auto" => last.kind = "err"
       /\ (last.mode = "GhostLLM" /\ last.probe # "true") => last.kind = "err"

\* a step in which switch_mode returns an error keeps the router's fields
C11_Step ==
    (last'.op = "switch_mode" /\ last'.kind = "err") =>
        /\ router'.active_mode = router.active_mode
        /\ router'.ghostllm_client = router.ghostllm_client

\* C11: switch_mode(Auto) always returns an error; switch_mode(GhostLLM)
\* returns an error unless the probe returned true within the timeout; and
\* whenever switch_mode returns an error, active_mode and ghostllm_client
\* are what they were before the call.
C11_SwitchModeErrors == []C11_Returns /\ [][C11_Step]_vars

\* C11 witness: a router in Direct mode that holds a proxy adapter has
\* refused switch_mode(GhostLLM) because the probe timed out.
C11_Witness ==
    /\ last.op = "switch_mode"
    /\ last.kind = "err"
    /\ last.mode = "GhostLLM"
    /\ last.probe = "timeout"
    /\ last.before = "Direct"
    /\ router.active_mode = "Direct"
    /\ router.ghostllm_client # NoClient

\* a step of a constructed router: active_mode changes only when
\* switch_mode(m) returns Ok, and then to m; a chat_completion that starts
\* goes to the proxy adapter exactly when active_mode is GhostLLM and into
\* the registry exactly when it is Direct
C12_Step ==
    router.state = "ready" =>
       /\ router'.active_mode # router.active_mode =>
             (last'.op = "switch_mode" /\ last'.kind = "ok")
       /\ (last'.op = "switch_mode" /\ last'.kind = "ok") =>
             router'.active_mode = last'.mode
       /\ last'.op \in {"router_chat", "chat", "list_available_providers",
                        "get_provider_status"} =>
             router' = router
       /\ \A t \in RouterTasks :
             (tasks[t].pc = "idle" /\ tasks'[t].pc # "idle") =>
                 /\ router' = router
                 /\ tasks'[t].pc = "proxy_call" <=>
                       router.active_mode = "GhostLLM"
                 /\ tasks'[t].op = "chat" <=> router.active_mode = "Direct"

\* C12: the active mode of a router changes only through a switch_mode
\* that returns Ok; chat_completion, list_available_providers and
\* get_provider_status leave it unchanged whatever they return; and a
\* chat_completion is routed by the active mode at its start, which is the
\* mode of the last switch_mode that returned Ok.
C12_ModeChangesOnlyBySwitch == [][C12_Step]_vars

\* C12 witness: a router configured for GhostLLM was switched to Direct,
\* and a chat_completion started afterwards is inside the registry's loop.
C12_Witness ==
    /\ router.state = "ready"
    /\ router.mode = "GhostLLM"
    /\ router.active_mode = "Direct"
    /\ \E t \in RouterTasks : tasks[t].op = "chat" /\ tasks[t].pc = "call"

\* where the callers of a constructed router are, by its active mode
C13_Routes ==
    router.state = "ready" =>
       \A t \in RouterTasks :
          /\ router.active_mode = "GhostLLM" =>
                /\ tasks[t].pc \in {"idle", "proxy_call"}
                /\ tasks[t].pc = "proxy_call" =>
                      tasks[t].client = router.ghostllm_client
          /\ router.active_mode = "Direct" =>
                /\ tasks[t].pc # "proxy_call"
                /\ tasks[t].pc # "idle" => tasks[t].op = "chat"
                /\ tasks[t].pc = "call" =>
                      tasks[t].client # router.ghostllm_client

\* a step of a router chat_completion in GhostLLM mode changes no health
\* row and no adapter of the registry
C13_Step ==
    (router.state = "ready" /\ router.active_mode = "GhostLLM"
       /\ \E t \in RouterTasks :
             tasks[t].pc = "proxy_call" \/ tasks'[t].pc = "proxy_call") =>
           health' = health /\ providers' = providers

\* C13: while the active mode is GhostLLM every router chat_completion is
\* one call of the adapter in ghostllm_client and runs no part of the
\* registry's selection and dispatch, so no health row changes; while it is
\* Direct every chat_completion runs the registry's dispatch and the
\* adapters it calls are never the one in ghostllm_client.
C13_ModeSeparatesPaths == []C13_Routes /\ [][C13_Step]_vars

\* C13 witness: a router that holds a proxy adapter and was switched to
\* Direct is calling the GhostLLM adapter of the registry, which is another
\* instance than the one it holds.
C13_Witness ==
    /\ router.state = "ready"
    /\ router.active_mode = "Direct"
    /\ router.ghostllm_client # NoClient
    /\ \E t \in RouterTasks :
          /\ tasks[t].pc = "call"
          /\ tasks[t].client.type = "GhostLLMClient"
          /\ tasks[t].client # router.ghostllm_client

\* the providers whose adapters initialize_default_providers can build
\* under the environment env: the two local ones, and each hosted one whose
\* key is set
BuildableUnder(env) ==
    {"GhostLLM", "Ollama"}
    \cup (IF "OPENAI_API_KEY" \in env THEN {"OpenAI"} ELSE {})
    \cup (IF "CLAUDE_API_KEY" \in env THEN {"Claude"} ELSE {})
    \cup (IF "DEEPSEEK_API_KEY" \in env THEN {"DeepSeek"} ELSE {})

C29_Step ==
    /\ last'.op = "router_new" =>
          \A mode \in ProviderMode, client_ok \in BOOLEAN,
             probe \in ProbeOutcomes \cup {"none"}, env \in SUBSET EnvVars :
             (/\ RouterNew(mode, probe, client_ok, env)
              /\ detect_active_mode(mode, probe) = "Direct")
             => /\ last'.kind = "ok"
                /\ DOMAIN providers' = BuildableUnder(env)
                /\ DOMAIN providers' # {}
    /\ (last'.op = "switch_mode" /\ last'.mode = "Direct") =>
          \A client_ok \in BOOLEAN, probe \in ProbeOutcomes \cup {"none"},
             env \in SUBSET EnvVars :
             RouterSwitchMode("Direct", probe, client_ok, env)
             => /\ last'.kind = "ok"
                /\ DOMAIN providers' =
                      DOMAIN providers \cup BuildableUnder(env)
                /\ DOMAIN providers' # {}

\* C29: initialize_default_providers never fails because a provider's
\* credential is absent: whatever keys the environment holds, the call made
\* for the direct mode returns Ok, the providers registered by it are
\* exactly those whose adapter can be built (the others are skipped), and
\* afterwards at least one provider is registered.
C29_AbsentCredentialSkipped == [][C29_Step]_vars

\* C29 (case reached): a router built in direct mode with no key in the
\* environment is ready with the two local providers only registered
C29_Witness ==
    /\ last.op = "router_new"
    /\ last.kind = "ok"
    /\ router.active_mode = "Direct"
    /\ DOMAIN providers = {"GhostLLM", "Ollama"}

---------------------------------------------------------------------------
(* The streaming pipeline: laws *)

\* the stream's adapter call failed
StreamFailed == stream.response \notin {"none", "ok"}

\* positions of the chunks with finished = true among the items
FinishedAt == {k \in 1..Len(stream.items) :
                  stream.items[k].ok /\ stream.items[k].finished}

\* C14: a chunk with finished = true is the last item of its stream and
\* its delta is empty, nothing being yielded after it; and a stream that
\* has run to its end without a failure of its adapter call (a completed
\* stream, as opposed to a failed one) has emitted exactly one such chunk.
C14_FinalChunkLaw ==
    /\ \A k \in FinishedAt :
          /\ k = Len(stream.items)
          /\ stream.items[k].delta = <<>>
          /\ stream.pc \in {"end", "done", "dropped"}
    /\ (stream.pc = "done" /\ ~StreamFailed) => Cardinality(FinishedAt) = 1

\* C14 witness: a real stream has run to its end after two chunks of
\* words and the final chunk.
C14_Witness ==
    /\ stream.flavor = "real"
    /\ stream.pc = "done"
    /\ Len(stream.items) = 3
    /\ FinishedAt = {3}

\* the content with every run of whitespace collapsed to one space and the
\* whitespace at its two ends removed: the positions kept are those of the
\* other characters and of the first whitespace of each inner run
KeptPositions(s) ==
    {i \in 1..Len(s) :
        \/ ~is_whitespace(s[i])
        \/ /\ i > 1
           /\ ~is_whitespace(s[i - 1])
           /\ \E j \in (i + 1)..Len(s) : ~is_whitespace(s[j])}

Normalized(s) ==
    LET kept == KeptPositions(s)
        nth(k) == CHOOSE i \in kept : Cardinality({j \in kept : j < i}) = k - 1
    IN  [k \in 1..Cardinality(kept) |->
            IF is_whitespace(s[nth(k)]) THEN " " ELSE s[nth(k)]]

\* the deltas of the chunks that are not final, concatenated in the order
\* of emission
RECURSIVE ConcatDeltas(_)
ConcatDeltas(items) ==
    IF items = <<>> THEN <<>>
    ELSE (IF Head(items).ok /\ ~Head(items).finished
          THEN Head(items).delta ELSE <<>>) \o ConcatDeltas(Tail(items))

\* C15: once the synthesized stream of a response has yielded its final
\* chunk, the deltas of its other chunks concatenated in emission order
\* are the response content with every run of whitespace collapsed to one
\* space and leading and trailing whitespace removed; each of these chunks
\* holds chunk_size words (the last one possibly fewer), and each after
\* the first starts with one space.
C15_ConcatenationLaw ==
    (stream.response = "ok" /\ stream.pc \in {"end", "done"}) =>
       \A items \in {SubSeq(stream.items, 1, Len(stream.items) - 1)} :
          /\ ConcatDeltas(stream.items) = Normalized(stream.content)
          /\ \A k \in 1..Len(items) :
                /\ items[k].ok /\ ~items[k].finished
                /\ Cardinality(WordStarts(items[k].delta)) =
                      (IF k < Len(items) THEN stream.chunk_size
                       ELSE Len(stream.words)
                               - stream.chunk_size * (Len(items) - 1))
                /\ k = 1 => ~is_whitespace(items[k].delta[1])
                /\ k > 1 => /\ items[k].delta[1] = " "
                            /\ ~is_whitespace(items[k].delta[2])

\* C15 witness: a real stream has completed for a content that starts with
\* whitespace, has a newline and a run of two whitespace characters
\* between words, and fills two chunks.
C15_Witness ==
    /\ stream.flavor = "real"
    /\ stream.pc = "done"
    /\ stream.content = <<" ", "a", "\n", " ", "b">>
       \/ stream.content = <<"a", "\n", "b", " ", "a">>
    /\ Len(stream.items) >= 2

\* C16: when the adapter's chat_completion has failed, the error it
\* returned is the stream's only and last item (the SSE handler turning it
\* into an event of type error that carries it), and the stream body has
\* nothing more to run: no chunk, final or not, follows.
C16_FailedStreamEndsWithError ==
    StreamFailed =>
       /\ stream.items = <<StreamError(stream.response)>>
       /\ stream.pc \in {"end", "done", "dropped"}
       /\ SseEvent(stream.items[Len(stream.items)]) =
             [type |-> "error", text |-> <<>>, message |-> stream.response]

\* C16 witness: a real stream whose adapter returned a network error has
\* run to its end.
C16_Witness ==
    /\ stream.flavor = "real"
    /\ stream.pc = "done"
    /\ stream.response = "Network"
    /\ Len(stream.items) = 1
    /\ ~stream.items[1].ok

---------------------------------------------------------------------------
(* Claims about the approval engine *)

\* some rule the approver holds matches the request and has no failing
\* condition at the hour
RuleDecides(request, hour) ==
    \E k \in 1..Len(approver.order) :
        /\ action_matches_pattern(request.action_type,
                                  RuleNamed(approver.order[k]).action_pattern)
        /\ check_rule_conditions(request,
                                 RuleNamed(approver.order[k]).conditions, hour)

\* the session cache holds AllowedSession for the request's action
SessionEntry(request) ==
    /\ request.action_type \in DOMAIN approver.session_approvals
    /\ approver.session_approvals[request.action_type] = "AllowedSession"

\* the project cache holds an entry for the request's project and action
ProjectEntry(request) ==
    /\ request.project_path # <<>>
    /\ request.project_path[1] \in DOMAIN approver.project_approvals
    /\ request.action_type \in
          DOMAIN approver.project_approvals[request.project_path[1]]

\* a step in which request_approval evaluates a request
Evaluates == reply.pc # "prompt" /\ reply' # reply

C17_Step ==
    Evaluates =>
      LET request == reply'.request
          hour == reply'.hour
      IN  /\ RuleDecides(request, hour) =>
                /\ reply'.pc = "done" /\ ~reply'.prompted
                /\ reply'.status \in {"AllowedOnce", "Denied"}
          /\ (~RuleDecides(request, hour) /\ SessionEntry(request)) =>
                /\ reply'.pc = "done" /\ ~reply'.prompted
                /\ reply'.status = "AllowedSession"
          /\ (/\ ~RuleDecides(request, hour)
              /\ ~SessionEntry(request)
              /\ ProjectEntry(request)) =>
                /\ reply'.pc = "done" /\ ~reply'.prompted
                /\ reply'.status =
                     approver.project_approvals[request.project_path[1]]
                        [request.action_type]
          /\ reply'.pc = "prompt" <=>
                /\ ~RuleDecides(request, hour)
                /\ ~SessionEntry(request)
                /\ ~ProjectEntry(request)

IterationOrders ==
    LET names == {approver.order[k] : k \in 1..Len(approver.order)}
    IN  {o \in [1..Len(approver.order) -> names] :
            \A i, j \in 1..Len(approver.order) : o[i] = o[j] => i = j}

\* C18: approval determinism.  The rule set (the rules by name), the caches,
\* the request and the clock hour determine the decision: whatever order the
\* rules map yields its rules in, request_approval gives the decision it
\* gives with the approver's own order, also when rules with different
\* auto_approve match the request.
C18_DecisionIsFunctionOfRuleSet ==
    \A request \in ActionRequests, hour \in Hours :
        \A o \in IterationOrders :
            request_approval([approver EXCEPT !.order = o], request, hour)
              = request_approval(approver, request, hour)

\* some rule that decides the request has the given auto_approve
DecidingRuleWith(request, hour, auto_approve) ==
    \E k \in 1..Len(approver.order) :
        /\ action_matches_pattern(request.action_type,
                                  RuleNamed(approver.order[k]).action_pattern)
        /\ check_rule_conditions(request,
                                 RuleNamed(approver.order[k]).conditions, hour)
        /\ RuleNamed(approver.order[k]).auto_approve = auto_approve

C19_Step ==
    (Evaluates /\ RuleDecides(reply'.request, reply'.hour)) =>
        /\ reply'.pc = "done"
        /\ ~reply'.prompted
        /\ \/ /\ reply'.status = "AllowedOnce"
              /\ DecidingRuleWith(reply'.request, reply'.hour, TRUE)
           \/ /\ reply'.status = "Denied"
              /\ DecidingRuleWith(reply'.request, reply'.hour, FALSE)
        /\ approver'.session_approvals = approver.session_approvals
        /\ approver'.project_approvals = approver.project_approvals

C19_ResponseId == reply.pc = "done" => reply.request_id = reply.request.id

\* C19: a request matched by a rule with no failing condition is answered
\* by request_approval with AllowedOnce when the rule has auto_approve and
\* with Denied when it has not, the user is not prompted and neither cache
\* changes; and every response of request_approval, prompted or not,
\* carries the id of its request.
C19_RuleAnswers == []C19_ResponseId /\ [][C19_Step]_vars

\* deny_dangerous_commands, the only rule held, denied `rm -rf x` under the
\* request's id without a prompt
C19_Witness ==
    /\ reply.pc = "done" /\ ~reply.prompted /\ reply.status = "Denied"
    /\ reply.request.action_type = CommandExecution(Command_rm_rf_x)
    /\ reply.request_id = "id2" /\ reply.request.id = "id2"
    /\ approver.order = <<"deny_dangerous_commands">>

\* the session cache holds AllowedSession for an action of the request's
\* variant
SessionEntryOfVariant(request) ==
    \E action \in DOMAIN approver.session_approvals :
        /\ action.tag = request.action_type.tag
        /\ approver.session_approvals[action] = "AllowedSession"

C20_Step ==
    (/\ Evaluates
     /\ ~RuleDecides(reply'.request, reply'.hour)
     /\ SessionEntryOfVariant(reply'.request)) =>
        /\ reply'.pc = "done"
        /\ ~reply'.prompted
        /\ reply'.status = "AllowedSession"

PromptAnswered == reply.pc = "prompt" /\ reply'.pc = "done"

C21_Step ==
    PromptAnswered =>
        /\ reply'.status \in {"AllowedSession", "AllowedProject", "Denied"} =>
              check_existing_approvals(approver'.session_approvals,
                                       approver'.project_approvals,
                                       reply'.request) = reply'.status
        /\ reply'.status = "AllowedOnce" =>
              /\ approver'.session_approvals = approver.session_approvals
              /\ approver'.project_approvals = approver.project_approvals

---------------------------------------------------------------------------
(* Claims about the ActionManager *)

\* C22: for any number of callers of ActionManager::request_approval, at
\* most one request is with the approver at any time, so at most one prompt
\* is outstanding, and the requests are taken up for decision in the order
\* in which they were put on the channel: the ids received are always the
\* first ones sent, in the same order.
C22_SerializedInChannelOrder ==
    /\ Cardinality(manager.in_approver) <= 1
    /\ Cardinality({d \in manager.in_approver : d.pc = "prompt"}) <= 1
    /\ Len(manager.received) <= Len(manager.sent)
    /\ manager.received = SubSeq(manager.sent, 1, Len(manager.received))

\* three callers have sent their requests in an order other than the one
\* in which they stored their reply channels; two requests have been
\* received, the second is at the prompt and the third waits on the channel
C22_Witness ==
    /\ Len(manager.sent) = 3
    /\ manager.sent[1] # 1
    /\ Len(manager.received) = 2
    /\ \E d \in manager.in_approver :
          d.pc = "prompt" /\ d.request.id = manager.sent[2]
    /\ Len(manager.channel) = 1
    /\ \A c \in Callers : manager.callers[c].pc \in {"waiting", "done"}

\* the step on which caller c gets its answer: the status it returns is the
\* one decided for the request of its own id, Denied when the approver
\* failed on that request, and the reply table no longer holds its entry;
\* a caller that has its answer keeps it
C32_AnswerOf(c) ==
    LET before == manager.callers[c]
        after == manager'.callers[c]
    IN  /\ (before.pc # "done" /\ after.pc = "done") =>
             /\ before.pc = "waiting"
             /\ \E d \in manager.in_approver :
                   /\ d.request.id = c
                   /\ d.request = before.request
                   /\ d.pc = "respond"
                   /\ after.status = d.status
             /\ c \in manager'.failed => after.status = "Denied"
             /\ c \notin manager'.response_receivers
        /\ before.pc = "done" =>
             /\ after = before
             /\ c \notin manager'.response_receivers

\* C32: under fair scheduling every call of ActionManager::request_approval
\* that is not abandoned by its caller eventually receives a decision,
\* exactly one, and it is the decision made for its own request id; when
\* the approver returns an error for a request, the decision delivered for
\* it is Denied; once a request has been answered the pending-reply table
\* holds no entry for it.
C32_EveryCallAnswered ==
    /\ \A c \in Callers :
          (manager.callers[c].pc = "stored")
             ~> (manager.callers[c].pc \in {"done", "dropped"})
    /\ [][\A c \in Callers : C32_AnswerOf(c)]_vars

\* C32 (case reached): a caller has got Denied for a request on which the
\* approver returned an error, another caller has got an approval, and the
\* reply table is empty
C32_Witness ==
    /\ \E c \in Callers :
          /\ manager.callers[c].pc = "done"
          /\ c \in manager.failed
          /\ manager.callers[c].status = "Denied"
    /\ \E c \in Callers :
          /\ manager.callers[c].pc = "done"
          /\ c \notin manager.failed
          /\ manager.callers[c].status = "AllowedOnce"
    /\ manager.response_receivers = {}

---------------------------------------------------------------------------
(* Claims about the TaskManager *)

\* the tasks of the list that are InProgress
InProgressCount(list) ==
    Cardinality({k \in 1..Len(list) : list[k].status = "InProgress"})

\* C23: the single-active-task invariant.  After any sequence of add_task,
\* update_task_status, remove_task and set_task_list at most one task of
\* the list is InProgress.
C23_SingleActiveTask == InProgressCount(todo.list) <= 1

\* update_task_status and remove_task never bring a list with at most one
\* task InProgress to one with more, and neither does add_task of a task
\* that is not InProgress
ValidatedStepsKeepSingleActive ==
    [][(/\ InProgressCount(todo.list) <= 1
        /\ \/ \E task_id \in TaskIds, status \in TaskStatus :
                 TodoUpdateTaskStatus(task_id, status)
           \/ \E task_id \in TaskIds : TodoRemoveTask(task_id)
           \/ \E task \in GivenTasks :
                 task.status # "InProgress" /\ TodoAddTask(task))
       => InProgressCount(todo'.list) <= 1]_vars

C24_Step ==
    \A task_id \in TaskIds, status \in TaskStatus :
        (/\ TodoUpdateTaskStatus(task_id, status)
         /\ \/ position(todo.list, task_id) = 0
            \/ todo.list[position(todo.list, task_id)].status
                  \in {"Completed", "Cancelled"})
        => /\ todo'.ret.result = "Err"
           /\ todo'.list = todo.list
           /\ todo'.task_index = todo.task_index

\* C24: Completed and Cancelled are terminal.  update_task_status on a task
\* that is Completed or Cancelled returns an error whatever the target
\* status and leaves the whole list as it was; on an id that no task of
\* the list has it returns an error and changes nothing either.
C24_TerminalStatuses == [][C24_Step]_vars

\* update_task_status has just refused to change a cancelled task, in a
\* list that also holds a completed one
C24_Witness ==
    /\ todo.ret.op = "update_task_status"
    /\ todo.ret.result = "Err"
    /\ todo.ret.error = "cancelled"
    /\ \E k \in 1..Len(todo.list) : todo.list[k].status = "Cancelled"
    /\ \E k \in 1..Len(todo.list) : todo.list[k].status = "Completed"

\* some dependency of the task is not a Completed task of the list
HasOpenDependency(list, task) ==
    \E dep_id \in task.dependencies :
        \/ position(list, dep_id) = 0
        \/ list[position(list, dep_id)].status # "Completed"

C25_Step ==
    \A task_id \in TaskIds, status \in TaskStatus \ {"Pending"} :
        (/\ TodoUpdateTaskStatus(task_id, status)
         /\ position(todo.list, task_id) # 0
         /\ todo.list[position(todo.list, task_id)].status = "Pending"
         /\ HasOpenDependency(todo.list,
                              todo.list[position(todo.list, task_id)]))
        => /\ todo'.ret.result = "Err"
           /\ todo'.list = todo.list

\* C25: a task that has dependencies cannot move out of Pending until every
\* one of them is Completed: update_task_status of a Pending task to any
\* other status is refused, and changes nothing, while some dependency of
\* the task is not Completed.
C25_DependenciesGateStart == [][C25_Step]_vars

---------------------------------------------------------------------------
(* Claims about the Copilot adapter's token *)

\* the token the call found is neither expired when is_expired reads the
\* clock nor within the refresh window when needs_refresh reads it
FoundFresh(call) ==
    /\ ~is_expired(call.token[1], call.now)
    /\ call.now_again # 0
    /\ needs_refresh(call.token[1], call.now_again) = "false"

\* C26: how the adapter obtains its bearer token.  A get_valid_token call
\* that has returned: with no cached token it returned an Auth error;
\* with a cached token that is not expired and does not need refresh it
\* returned that token's access token without any grant; otherwise (token
\* expired or expiring within 300 s), the token having a refresh token, it
\* made exactly one refresh grant with it and returned the new access
\* token when the grant succeeded and an Auth error when it failed.
C26_BearerToken ==
    copilot.call.pc = "done" =>
       \A call \in {copilot.call} :
          /\ call.token = <<>> =>
                call.result = "Err" /\ call.grants = 0
          /\ (call.token # <<>> /\ FoundFresh(call)) =>
                /\ call.result = "Ok"
                /\ call.value = call.token[1].access_token
                /\ call.grants = 0
          /\ (/\ call.token # <<>>
              /\ ~FoundFresh(call)
              /\ call.token[1].refresh_token # <<>>) =>
                /\ call.grants = 1
                /\ call.granted_with = call.token[1].refresh_token
                /\ call.grant = "Ok" =>
                      call.result = "Ok" /\ call.value = "refreshed"
                /\ call.grant = "Err" => call.result = "Err"

---------------------------------------------------------------------------
(* Further claims about the dispatch *)

\* C27: when every provider in the dispatch list fails, the error that
\* chat_completion returns is the error produced by the last provider
\* attempted: a chat_completion that returns an error after at least one
\* failed attempt returns an error of the kind of the last failure seen.
C27_LastErrorReturned ==
    (last.op = "chat" /\ last.kind = "err" /\ last.failed >= 1) =>
       last.error = last.err

\* C28: the HTTP gateway maps a failed chat completion to a status code by
\* error kind: Auth gives 401, InvalidParameter or InvalidInput gives 400,
\* ProviderUnavailable gives 503, and every other kind gives 500.
C28_StatusByErrorKind ==
    gateway.completion = "err" =>
       gateway.status =
          CASE gateway.kind = "Auth" -> 401
            [] gateway.kind \in {"InvalidParameter", "InvalidInput"} -> 400
            [] gateway.kind = "ProviderUnavailable" -> 503
            [] OTHER -> 500

\* one step of the dispatch of caller t: the adapter call that has returned
\* (pc = "call") is recorded once in the row of the provider attempted, and
\* no other row changes; any other step of the dispatch changes no row; a
\* provider joins `attempted` only when its adapter is about to be called
C30_StepOf(t) ==
    LET before == tasks[t]
        after == tasks'[t]
    IN  /\ (before.op = "chat" /\ after # before) =>
             IF before.pc = "call"
             THEN LET provider == before.attempted[Len(before.attempted)]
                  IN  /\ provider = before.list[before.idx]
                      /\ provider \in DOMAIN health
                      /\ DOMAIN health' = DOMAIN health
                      /\ health'[provider].updates =
                            Append(health[provider].updates,
                                   last'.op = "chat" /\ last'.kind = "ok")
                      /\ \A other \in DOMAIN health \ {provider} :
                            health'[other] = health[other]
             ELSE health' = health
        /\ (after.op = "chat" /\ after.attempted # before.attempted) =>
             /\ before.pc = "lookup"
             /\ after.pc = "call"
             /\ after.attempted =
                   Append(before.attempted, before.list[before.idx])

\* C30: a dispatch changes the health rows of exactly the providers it
\* attempted: each attempt is followed, before the next provider is looked
\* up, by exactly one update of the attempted provider's row, and no step
\* of the dispatch changes the row of any other provider.
C30_OnlyAttemptedRowsChange == [][\A t \in Tasks : C30_StepOf(t)]_vars

\* C30 (case reached): a dispatch has returned after two attempts, the
\* first failed and the second successful; each of the two rows holds its
\* one update and the row of a provider not attempted holds none
C30_Witness ==
    /\ last.op = "chat"
    /\ last.kind = "ok"
    /\ Len(last.attempted) = 2
    /\ last.attempted[1] # last.attempted[2]
    /\ last.attempted[1] \in DOMAIN health
    /\ last.attempted[2] \in DOMAIN health
    /\ health[last.attempted[1]].updates = <<FALSE>>
    /\ health[last.attempted[2]].updates = <<TRUE>>
    /\ \E other \in DOMAIN health :
          /\ other # last.attempted[1]
          /\ other # last.attempted[2]
          /\ health[other].updates = <<>>

---------------------------------------------------------------------------
(* Claims about the router's proxy client *)

\* C31: in every state of a successfully constructed router, after any
\* sequence of successful and failed switch_mode calls, active mode
\* GhostLLM implies that the proxy client is set, and no chat_completion of
\* the router routed in GhostLLM mode returns "GhostLLM client not
\* initialized".
C31_ProxyModeHasClient ==
    /\ (router.state = "ready" /\ router.active_mode = "GhostLLM")
          => router.ghostllm_client # NoClient
    /\ (last.op = "router_chat" /\ last.mode = "GhostLLM")
          => ~(last.kind = "err"
               /\ last.message = "GhostLLM client not initialized")

\* C31 (case reached): a chat is answered through the proxy client by a
\* router that has switched modes before (its proxy adapter is not the
\* first adapter built)
C31_Witness ==
    /\ last.op = "router_chat"
    /\ last.mode = "GhostLLM"
    /\ router.active_mode = "GhostLLM"
    /\ router.epoch >= 2
    /\ last.client = router.ghostllm_client

---------------------------------------------------------------------------
(* Claims about the health rows *)

\* one EMA step on an error rate
EmaStep(error_rate, is_healthy) ==
    F32Add(F32Mul(error_rate, F32_0_9),
           F32Mul(IF is_healthy THEN F32Zero ELSE F32One, F32_0_1))

\* the error rate of a new row after the EMA steps of `updates`, one after
\* another
RECURSIVE EmaOf(_)
EmaOf(updates) ==
    IF updates = <<>> THEN F32Zero
    ELSE EmaStep(EmaOf(SubSeq(updates, 1, Len(updates) - 1)),
                 updates[Len(updates)])

\* every row is the result of the updates applied to it, one after another
C33_RowIsSerialResult ==
    \A provider \in DOMAIN health :
       LET row == health[provider] IN
       /\ row.error_rate = EmaOf(row.updates)
       /\ row.updates # <<>> => row.is_healthy = row.updates[Len(row.updates)]
       /\ row.updates = <<>> => (row.is_healthy /\ row.response_time = 0)

\* the completion of an attempt of caller t is applied to the row as it is
\* at that moment, whatever other callers have applied to it meanwhile
C33_CompletionOf(t) ==
    (tasks[t].pc = "call" /\ tasks'[t] # tasks[t]) =>
       LET provider == tasks[t].list[tasks[t].idx]
           ok == last'.op = "chat" /\ last'.kind = "ok"
       IN  /\ provider \in DOMAIN health
           /\ health'[provider].updates =
                 Append(health[provider].updates, ok)
           /\ health'[provider].error_rate =
                 EmaStep(health[provider].error_rate, ok)
           /\ health'[provider].is_healthy = ok
           /\ health'[provider].response_time \in Durations

\* C33: health updates from concurrent dispatches are never lost: when
\* attempts on the same provider complete under any interleaving of
\* concurrent chat_completion calls, each completion adds its EMA step to
\* the row as the others left it, so the provider's error_rate is the
\* result of the steps applied one after another in the order they
\* completed, and is_healthy and response_time are those of the update
\* applied last.
C33_NoLostUpdate ==
    /\ []C33_RowIsSerialResult
    /\ [][\A t \in Tasks : C33_CompletionOf(t)]_vars

\* C33 (case reached): a dispatch has just returned Ok from a provider
\* while another caller's attempt on the same provider, begun before, is
\* still in flight
C33_Witness ==
    \E t \in Tasks :
       /\ tasks[t].pc = "call"
       /\ last.op = "chat"
       /\ last.kind = "ok"
       /\ last.attempted = <<tasks[t].list[tasks[t].idx]>>
       /\ tasks[t].list[tasks[t].idx] \in DOMAIN health
       /\ health[tasks[t].list[tasks[t].idx]].updates = <<TRUE>>

---------------------------------------------------------------------------
(* Claims about providers without an adapter *)

\* the step of caller t's dispatch at a provider that has no registered
\* adapter: no call is begun, no row and no adapter changes, the provider
\* is noted as passed over, and the loop goes to the next provider or,
\* the list being exhausted, returns "All providers failed"
C34_SkipOf(t) ==
    LET before == tasks[t]
        provider == before.list[before.idx]
    IN  (/\ before.pc = "lookup"
         /\ tasks'[t] # before
         /\ provider \notin DOMAIN providers)
        => /\ attempts' = attempts
           /\ health' = health
           /\ providers' = providers
           /\ IF before.idx < Len(before.list)
              THEN /\ tasks'[t].pc = "lookup"
                   /\ tasks'[t].idx = before.idx + 1
                   /\ tasks'[t].attempted = before.attempted
                   /\ tasks'[t].skipped = Append(before.skipped, provider)
                   /\ last' = NoReturn
              ELSE /\ tasks'[t] = IdleTask
                   /\ last'.op = "chat"
                   /\ last'.kind = "err"
                   /\ last'.error = "Provider"
                   /\ last'.message = "All providers failed"
                   /\ last'.attempted = before.attempted
                   /\ last'.skipped = Append(before.skipped, provider)

\* a dispatch that has returned visited its list in order, each provider
\* either attempted or passed over; one that attempted nothing failed with
\* "All providers failed"
C34_NothingAttempted ==
    (last.op = "chat" /\ last.list # <<>> /\ last.attempted = <<>>) =>
       /\ last.kind = "err"
       /\ last.message = "All providers failed"
       /\ last.skipped = last.list

\* C34: a provider that appears in the selector's ordered list but has no
\* registered adapter is skipped by the dispatch loop: no call is made for
\* it, no health row is created or changed for it, and the loop goes on to
\* the next provider; when no provider of the list has a registered
\* adapter, chat_completion fails with "All providers failed".
C34_UnregisteredSkipped ==
    /\ []C34_NothingAttempted
    /\ [][\A t \in Tasks : C34_SkipOf(t)]_vars

\* C34 (case reached): a dispatch has returned Ok from the provider it
\* reached after passing over one that has no adapter and no health row
C34_Witness ==
    /\ last.op = "chat"
    /\ last.kind = "ok"
    /\ Len(last.skipped) >= 1
    /\ Len(last.attempted) = 1
    /\ last.skipped[1] \notin DOMAIN providers
    /\ last.skipped[1] \notin DOMAIN health
    /\ last.list[1] = last.skipped[1]

\* what one returned attempt does to the health map
C35_Step ==
    \A t \in Tasks, outcome \in Outcomes, duration \in Durations :
       ChatComplete(t, outcome, duration) =>
          LET provider == tasks[t].list[tasks[t].idx]
              old == health[provider]
              new == health'[provider]
          IN  /\ provider \in DOMAIN health
              /\ DOMAIN health' = DOMAIN health
              /\ \A other \in DOMAIN health \ {provider} :
                    health'[other] = health[other]
              /\ new.provider = old.provider
              /\ new.is_healthy = (outcome = "ok")
              /\ new.response_time = duration
              /\ new.last_check = clock
              /\ new.error_rate =
                    IF outcome = "ok"
                    THEN F32Mul(old.error_rate, F32_0_9)
                    ELSE F32Add(F32Mul(old.error_rate, F32_0_9), F32_0_1)

\* C35: the health update of one attempt sets, for the attempted provider
\* only: is_healthy to true on success and false on failure, response_time
\* to the elapsed time of the attempt, last_check to the current time, and
\* error_rate (in f32 arithmetic) to 0.9 x error_rate on success and
\* 0.9 x error_rate + 0.1 on failure.
C35_UpdateOfOneAttempt == [][C35_Step]_vars

\* C35 (case reached): a row updated by a failed attempt after time has
\* passed, beside a row that no attempt has touched since it was created
C35_Witness ==
    \E provider \in DOMAIN health, other \in DOMAIN health :
       /\ health[provider].updates = <<FALSE>>
       /\ ~health[provider].is_healthy
       /\ health[provider].last_check = clock
       /\ health[provider].response_time \in Durations
       /\ health[other].updates = <<>>
       /\ health[other].last_check < clock
       /\ last.op = "chat"

\* C36: the error_rate of a provider's health row is changed only by the
\* dispatch loop's per-attempt EMA step: a step that changes the
\* error_rate of a row that already exists is the return of an attempt on
\* that provider, and no other registry operation (register_provider of
\* the same or another provider, selection, status queries) changes it.
C36_ErrorRateOnlyByDispatch ==
    [][\A provider \in DOMAIN health :
          (provider \in DOMAIN health'
           /\ health'[provider].error_rate = health[provider].error_rate)
          \/ \E t \in Tasks :
                /\ tasks[t].pc = "call"
                /\ tasks'[t] # tasks[t]
                /\ tasks[t].list[tasks[t].idx] = provider
                /\ provider \in DOMAIN health'
                /\ health'[provider].error_rate =
                      EmaStep(health[provider].error_rate,
                              last'.op = "chat" /\ last'.kind = "ok")]_vars

\* C37: in every reachable state, after any sequence of registrations and
\* of successful and failed attempts, every health row has
\* 0 <= error_rate <= 1 (a number, neither NaN nor infinite).
C37_ErrorRateInUnitInterval ==
    \A provider \in DOMAIN health :
       /\ health[provider].error_rate.c = "fin"
       /\ ~F32Gt(F32Zero, health[provider].error_rate)
       /\ ~F32Gt(health[provider].error_rate, F32One)

\* C37 (case reached): a row after a hundred failed attempts in a row,
\* whose error_rate is above 0.9 and not above 1
C37_Witness ==
    \E provider \in DOMAIN health :
       /\ Len(health[provider].updates) >= 100
       /\ \A i \in 1..Len(health[provider].updates) :
             ~health[provider].updates[i]
       /\ F32Gt(health[provider].error_rate, F32_0_9)
       /\ ~F32Gt(health[provider].error_rate, F32One)

\* C38: no reader of the health map sees a half-updated row: once a reader
\* has copied is_healthy, last_check, response_time and error_rate of a
\* provider, the four values were all assigned by the same update (or all
\* by the creation of the row)
C38_NoTornRead ==
    \A t \in HealthLockTasks :
       health_lock.seen[t].read = 4 =>
          \A f, g \in DOMAIN health_lock.seen[t].stamps :
             health_lock.seen[t].stamps[f] = health_lock.seen[t].stamps[g]

\* C38 witness: a reader has copied a row that an update had written, and
\* another update of that row is under way or done since
C38_Witness ==
    \E t \in HealthLockTasks :
       /\ health_lock.seen[t].read = 4
       /\ health_lock.seen[t].stamps["error_rate"] >= 1
       /\ health_lock.seen[t].stamps["is_healthy"] >= 1
       /\ health_lock.stamps[health_lock.seen[t].provider]["is_healthy"]
            > health_lock.seen[t].stamps["is_healthy"]

\* C39: for the cached token and the current time, needs_refresh is true
\* exactly when the token has an expiry that lies less than 300 seconds
\* after the current time, also when the expiry is now or has passed; a
\* token without an expiry neither needs refresh nor is expired
C39_NeedsRefreshWindow ==
    \A token \in {copilot.auth_token[i] : i \in DOMAIN copilot.auth_token} :
       IF token.expires_at # <<>>
       THEN needs_refresh(token, copilot.now) = "true"
               <=> token.expires_at[1] < copilot.now + RefreshWindow
       ELSE /\ needs_refresh(token, copilot.now) = "false"
            /\ ~is_expired(token, copilot.now)

\* the handlers that have inserted their row and not yet removed it
WsInTable ==
    {c \in Conns : server.handlers[c].pc \in {"messages", "remove"}}

====
